---- MODULE Spec2Model ----
(***************************************************************************)
(* Model of the mtgdata log ingestion pipeline: Parser.ParseFile with its   *)
(* resume boundary (ingest_state), the batched transaction, the per-log     *)
(* correlator state kept by the Parser, and the store upserts the line      *)
(* handlers call.                                                           *)
(*                                                                          *)
(* The log file is a sequence of bytes.  A log line is written as three     *)
(* bytes: a head byte H (everything of the line up to the last closing      *)
(* bracket of its JSON: the framing, the method name, the marker tokens,    *)
(* the field values), a tail byte T (the closing bracket that makes the     *)
(* JSON well formed) and the line terminator NL.  A blank line is the       *)
(* single byte NL.  A reader that stops inside a line therefore sees a      *)
(* text that is classified like the line but does not decode.               *)
(***************************************************************************)
EXTENDS Integers, Sequences, FiniteSets, TLC

VARIABLES
    file,             \* bytes of the file at the log path
    gen,              \* how many times the file was replaced (rotation/truncation)
    db,               \* committed content of the database
    tx,               \* content seen and written by the open transaction
    stateByLog,       \* Parser.stateByLog: log path -> parseState
    pc,               \* "idle" or "reading" (inside ParseFile's line loop)
    lineNo,           \* ParseFile local
    byteOffset,       \* ParseFile local
    linesSinceCommit, \* ParseFile local
    linesRead,        \* stats.LinesRead of the current / last pass
    pass,             \* what the current / last pass saw when it started
    hist,             \* history of the run (not program state)
    cli               \* the command line driver: command, position, exit code

vars == <<file, gen, db, tx, stateByLog, pc, lineNo, byteOffset,
          linesSinceCommit, linesRead, pass, hist, cli>>

(***************************************************************************)
(* Bounds of the model.                                                     *)
(***************************************************************************)
\* lines written to one file (per generation)
MaxLines == 3
\* ParseFile passes in one run
MaxPasses == 2
\* calls of db.Init on one database
MaxInits == 2
\* digits of a decimal timestamp string
MaxDigits == 15
\* replacements of the file in one run
MaxGen == 1
\* lines per transaction; the program's value is 500 (parser.go:377)
batchSize == 2

\* team ids range over -1 .. MaxTeam
MaxTeam == 2

\* result entries in the result list of a room-state envelope
MaxResults == 2

\* ParseFile invocations in flight on one Parser
MaxRuns == 2

\* parseState objects made by one Parser
MaxObjs == 3

LogPath == "Player.log"

(***************************************************************************)
(* Generic helpers: maps are functions over the set of present keys; the    *)
(* SQL NULL of a text column is "", of an integer column 0.                 *)
(***************************************************************************)
EmptyMap == [x \in {} |-> 0]

Has(f, k) == k \in DOMAIN f

Put(f, k, v) == [x \in (DOMAIN f) \cup {k} |-> IF x = k THEN v ELSE f[x]]

Get(f, k, default) == IF k \in DOMAIN f THEN f[k] ELSE default

\* strings.TrimSpace over the strings of the model: two log paths and one
\* event name end with a blank; no other string has blanks around it
TrimSpace(str) ==
    CASE str = "Player.log " -> "Player.log"
      [] str = "QuickDraft_FIN_20250619 " -> "QuickDraft_FIN_20250619"
      [] str = " " -> ""
      [] OTHER -> str

\* nullIfEmpty: the text without the blanks around it; "" is bound as NULL
nullIfEmpty(v) == TrimSpace(v)

Coalesce(a, b) == IF a # "" THEN a ELSE b

CoalesceInt(a, b) == IF a # 0 THEN a ELSE b

Max(a, b) == IF a >= b THEN a ELSE b

\* the two substrings processLine looks for in a line that begins with {
RoomToken == "matchGameRoomStateChangedEvent"

GREToken == "greToClientEvent"

(***************************************************************************)
(* Log lines.  A payload holds what the decoders read from the line.        *)
(***************************************************************************)
Base ==
    [k |-> "noise", head |-> "", tokens |-> {}, pidSrc |-> "", pid |-> "", sname |-> "", method |-> "", etype |-> 0,
     m |-> "", e |-> "", seat |-> 0, team |-> 0, wteam |-> 0, ts |-> 0,
     reason |-> "", turns |-> 0, secs |-> 0,
     reserved |-> <<>>, players |-> <<>>, stateType |-> "", hasFinal |-> FALSE,
     results |-> <<>>,
     seats |-> <<>>, hasTurn |-> FALSE, turn |-> 0, phase |-> "",
     zones |-> <<>>, objs |-> <<>>, game |-> 0,
     deckId |-> "", dname |-> "", format |-> "", mainDeck |-> <<>>, sideboard |-> <<>>,
     commandZone |-> <<>>, companions |-> <<>>,
     draftId |-> "", isBot |-> FALSE, pack |-> 0, pick |-> 0, cardIds |-> <<>>,
     grpIds |-> <<>>,
     \* the envelope of an outgoing line: whether it is not JSON, and the form
     \* of its request attribute ("absent": none or null, "object": a JSON
     \* object, "quoted": a string holding a JSON object, "quoted_text": a
     \* string holding other text)
     badJSON |-> FALSE, request |-> "quoted"]

\* {"clientId":"<pid>","screenName":"<sname>"}
PersonaLine(pid, sname) ==
    [Base EXCEPT !.k = "persona", !.head = "{", !.pidSrc = "clientId", !.pid = pid,
                 !.sname = sname]

\* a line of no other shape that shows the id by one of the persona patterns:
\* "PersonaId":"<pid>", \"PersonaId\":\"<pid>\", Match to <pid>: or
\* "clientId":"<pid>"
PersonaLineBy(pidSrc, pid) == [Base EXCEPT !.k = "persona", !.pidSrc = pidSrc, !.pid = pid]

\* ==> EventJoin {"id":..,"request":"{\"EventName\":\"<e>\"}"}
JoinLine(e) == [Base EXCEPT !.k = "outgoing", !.head = "==>", !.method = "EventJoin", !.e = e]

\* ==> EventClaimPrize {"id":..,"request":"{\\"EventName\\":\\"<e>\\"}"}
ClaimLine(e) == [Base EXCEPT !.k = "outgoing", !.head = "==>", !.method = "EventClaimPrize", !.e = e]

\* ==> LogBusinessEvents ... EventType 3
StartLine(m, e, seat, ts) ==
    [Base EXCEPT !.k = "outgoing", !.head = "==>", !.method = "LogBusinessEvents", !.etype = 3,
                 !.m = m, !.e = e, !.seat = seat, !.ts = ts]

\* ==> LogBusinessEvents ... EventType 4
EndLine(m, team, wteam, reason, ts) ==
    [Base EXCEPT !.k = "outgoing", !.head = "==>", !.method = "LogBusinessEvents", !.etype = 4,
                 !.m = m, !.team = team, !.wteam = wteam, !.reason = reason, !.ts = ts]

Player(userId, playerName, seat, team, eventId) ==
    [userId |-> userId, playerName |-> playerName, systemSeatId |-> seat,
     teamId |-> team, eventId |-> eventId]

\* the two players of every room-state line of the model: the opponent on
\* seat 1 / team 1 and the user of the log on seat 2 / team 2
TwoPlayers(e) == <<Player("opp-user", "Opp", 1, 1, e), Player("self-user", "Self", 2, 2, e)>>

ResultEntry(scope, wteam, reason) == [scope |-> scope, winningTeamId |-> wteam, reason |-> reason]

\* {"timestamp":..,"matchGameRoomStateChangedEvent":{..}}
RoomLine(m, e, stateType, results, ts) ==
    [Base EXCEPT !.k = "room_state", !.head = "{", !.tokens = {RoomToken}, !.m = m, !.e = e, !.reserved = TwoPlayers(e),
                 !.stateType = stateType, !.hasFinal = (results # <<>>),
                 !.results = results, !.ts = ts]

Zone(zoneId, type) == [zoneId |-> zoneId, type |-> type]

\* a public, non-token card object
CardObj(instanceId, grpId, zoneId, ownerSeatId) ==
    [instanceId |-> instanceId, grpId |-> grpId, type |-> "GameObjectType_Card",
     zoneId |-> zoneId, visibility |-> "Visibility_Public",
     ownerSeatId |-> ownerSeatId, isToken |-> FALSE]

\* {"timestamp":..,"greToClientEvent":{"greToClientMessages":[{..}]}} with one
\* game-state message; m = "" when gameInfo.matchID is absent
GRELine(m, seats, turn, phase, zones, objs, ts) ==
    [Base EXCEPT !.k = "gre_state", !.head = "{", !.tokens = {GREToken}, !.m = m,
                 !.seats = seats,
                 !.hasTurn = (turn > 0), !.turn = turn, !.phase = phase,
                 !.zones = zones, !.objs = objs, !.ts = ts]

\* a game-state line whose gameInfo also carries "gameNumber": game
GREGameLine(m, game, seats, turn, phase, zones, objs, ts) ==
    [GRELine(m, seats, turn, phase, zones, objs, ts) EXCEPT !.game = game]

\* ==> METHOD followed by text that is not a JSON envelope
UnparsedLine(method) ==
    [Base EXCEPT !.k = "outgoing", !.head = "==>", !.method = method, !.badJSON = TRUE]

\* ==> METHOD {"id":..,"request":<request>}, the request naming event e
OutgoingAs(method, e, request) ==
    [Base EXCEPT !.k = "outgoing", !.head = "==>", !.method = method, !.e = e,
                 !.request = request]

\* <== METHOD(id)
CompleteLine(method) == [Base EXCEPT !.k = "method_complete", !.head = "<==", !.method = method]

\* a line of no recognised shape
NoiseLine == [Base EXCEPT !.k = "noise"]

\* one card line of a deck section of an EventSetDeckV2 request
CardLine(cardId, quantity) == [cardId |-> cardId, quantity |-> quantity]

\* ==> EventSetDeckV2 ; lastUpdated is the LastUpdated attribute (0: none)
DeckLine(deckId, e, dname, mainDeck, sideboard, lastUpdated) ==
    [Base EXCEPT !.k = "outgoing", !.head = "==>", !.method = "EventSetDeckV2", !.deckId = deckId, !.e = e,
                 !.dname = dname, !.mainDeck = mainDeck, !.sideboard = sideboard,
                 !.ts = lastUpdated]

\* ==> EventPlayerDraftMakePick {"DraftId":..,"GrpIds":[..],"Pack":..,"Pick":..}
PlayerPickLine(draftId, pack, pick, grpIds) ==
    [Base EXCEPT !.k = "outgoing", !.head = "==>", !.method = "EventPlayerDraftMakePick",
                 !.draftId = draftId, !.pack = pack, !.pick = pick, !.grpIds = grpIds]

\* ==> BotDraftDraftPick {"EventName":..,"PickInfo":{"CardIds":["..",..],..}}
BotPickLine(e, pack, pick, cardIds) ==
    [Base EXCEPT !.k = "outgoing", !.head = "==>", !.method = "BotDraftDraftPick",
                 !.e = e, !.pack = pack, !.pick = pick, !.cardIds = cardIds]

\* ==> DraftCompleteDraft {"EventName":..,"IsBotDraft":..}
DraftCompleteLine(e, isBot) ==
    [Base EXCEPT !.k = "outgoing", !.head = "==>", !.method = "DraftCompleteDraft",
                 !.e = e, !.isBot = isBot]

H(p) == [t |-> "H", p |-> p]
T == [t |-> "T", p |-> Base]
NL == [t |-> "NL", p |-> Base]

(***************************************************************************)
(* The store (internal/db/store.go).  A database content is a record of     *)
(* tables; every store operation maps a content to the next content.  Each  *)
(* call that stamps nowUTC() advances a logical clock, so updated_at orders *)
(* rows as wall-clock time does.  Entry-currency columns are left out.      *)
(***************************************************************************)
EmptyDB ==
    [ingest |-> [found |-> FALSE, offset |-> 0, lineNo |-> 0],
     raw |-> <<>>,
     eventRuns |-> EmptyMap,
     matches |-> EmptyMap,
     decks |-> EmptyMap,
     deckCards |-> <<>>,
     matchDecks |-> EmptyMap,
     plays |-> EmptyMap,
     oppCards |-> EmptyMap,
     \* draft_sessions in id order (the id of a row is its position) and
     \* draft_picks by <<draft_session_id, pack_number, pick_number>>
     draftSessions |-> <<>>,
     draftPicks |-> EmptyMap,
     clock |-> 0,
     \* history carried by the transaction: the file generation the saved
     \* boundary was computed on, and the bytes <<generation, position>> whose
     \* line processing happened in a committed transaction
     bgen |-> 0,
     cov |-> {}]

Tick(d) == [d EXCEPT !.clock = @ + 1]

GetIngestState(d) == d.ingest

SaveIngestState(d, offset, line) ==
    [d EXCEPT !.ingest = [found |-> TRUE, offset |-> offset, lineNo |-> line]]

InsertRawEvent(d, line, offset, kind, method, payload) ==
    [d EXCEPT !.raw = Append(@, [line_no |-> line, byte_offset |-> offset,
                                 kind |-> kind, method_name |-> method,
                                 payload_json |-> payload])]

\* strings.Contains(strings.ToLower(eventName), sub) over the event names of the model
LowerContains(eventName, sub) ==
    CASE sub = "quickdraft" ->
            eventName \in {"QuickDraft_FIN_20250619", "QuickDraft_FIN_20250701",
                           "QuickDraft_EOE_20250801", "QuickDraft_FIN_20250619 ",
                           "QuickDraft0FIN0_Quick_Draft", "QuickDraft_QuickDraft0FIN0_1"}
      [] sub = "premierdraft" -> eventName \in {"PremierDraft_FIN_20250610"}
      [] sub = "sealed" ->
            eventName \in {"Sealed_FIN_20250610", "TradSealed_FIN_20250610", "FIN_Sealed",
                           "FIN_Trad_Sealed"}
      [] sub = "ladder" -> eventName \in {"Traditional_Ladder"}
      [] OTHER -> FALSE

detectEventType(eventName) ==
    CASE LowerContains(eventName, "quickdraft") -> "quick_draft"
      [] LowerContains(eventName, "premierdraft") -> "premier_draft"
      [] LowerContains(eventName, "traditionalsealed") \/ LowerContains(eventName, "sealed") -> "sealed"
      [] LowerContains(eventName, "jump_in") -> "jump_in"
      [] LowerContains(eventName, "ladder") -> "ladder"
      [] OTHER -> "other"

\* reSetKindEvent and the LIKE pattern built from its groups ("" when no
\* match), over the event names of the model
SetKindPattern(eventName) ==
    CASE eventName = "FIN_Quick_Draft" -> "quickdraft_fin_%"
      [] eventName = "FIN_Premier_Draft" -> "premierdraft_fin_%"
      [] eventName = "FIN_Sealed" -> "sealed_fin_%"
      [] eventName = "EOE_Quick_Draft" -> "quickdraft_eoe_%"
      [] eventName = "QuickDraft0FIN0_Quick_Draft" -> "quickdraft_quickdraft0fin0_%"
      [] OTHER -> ""

\* LOWER(event_name) LIKE pattern, over the event names of the model
LowerLike(eventName, pattern) ==
    CASE pattern = "quickdraft_fin_%" ->
            eventName \in {"QuickDraft_FIN_20250619", "QuickDraft_FIN_20250701",
                           "QuickDraft_FIN_20250619 ", "QuickDraft0FIN0_Quick_Draft"}
      [] pattern = "premierdraft_fin_%" -> eventName \in {"PremierDraft_FIN_20250610"}
      [] pattern = "sealed_fin_%" -> eventName \in {"Sealed_FIN_20250610"}
      [] pattern = "quickdraft_eoe_%" -> eventName \in {"QuickDraft_EOE_20250801"}
      [] pattern = "quickdraft_quickdraft0fin0_%" ->
            eventName \in {"QuickDraft_QuickDraft0FIN0_1"}
      [] OTHER -> FALSE

\* ORDER BY COALESCE(started_at, updated_at) DESC LIMIT 1
NewestRun(d, names) ==
    CHOOSE n \in names : \A o \in names :
        CoalesceInt(d.eventRuns[n].started_at, d.eventRuns[n].updated_at)
          >= CoalesceInt(d.eventRuns[o].started_at, d.eventRuns[o].updated_at)

\* variant: the name is kept unless an EventRun has exactly that name
resolveEventNameAliasExactOnly(d, eventName) == eventName

\* variant: no exact-match lookup before the pattern
resolveEventNameAliasNoExact(d, eventName) ==
    IF eventName = "" THEN ""
    ELSE LET pattern == SetKindPattern(eventName)
             names == IF pattern = "" THEN {}
                      ELSE {n \in DOMAIN d.eventRuns : LowerLike(n, pattern)}
         IN  IF names = {} THEN eventName ELSE NewestRun(d, names)

\* the lookups of resolveEventNameAlias, on the trimmed name
resolveTrimmedName(d, eventName) ==
    IF eventName = "" THEN ""
    ELSE IF Has(d.eventRuns, eventName) THEN eventName
    ELSE LET pattern == SetKindPattern(eventName)
             names == IF pattern = "" THEN {}
                      ELSE {n \in DOMAIN d.eventRuns : LowerLike(n, pattern)}
         IN  IF names = {} THEN eventName ELSE NewestRun(d, names)

resolveEventNameAlias(d, eventName) == resolveTrimmedName(d, TrimSpace(eventName))

UpsertEventRunJoin(d, eventName, ts) ==
    LET now == d.clock + 1
        row == IF Has(d.eventRuns, eventName)
               THEN [d.eventRuns[eventName] EXCEPT !.event_type = detectEventType(eventName),
                                                   !.updated_at = now]
               ELSE [event_type |-> detectEventType(eventName), status |-> "active",
                     started_at |-> ts, ended_at |-> 0, wins |-> 0, losses |-> 0,
                     updated_at |-> now]
    IN  Tick([d EXCEPT !.eventRuns = Put(@, eventName, row)])

MarkEventRunClaimed(d, eventName, ts) ==
    IF Has(d.eventRuns, eventName)
    THEN Tick([d EXCEPT !.eventRuns[eventName] =
                   [@ EXCEPT !.status = "claimed", !.ended_at = CoalesceInt(@, ts),
                             !.updated_at = d.clock + 1]])
    ELSE d

BumpEventRunRecord(d, eventName, result) ==
    IF eventName = "" \/ (result # "win" /\ result # "loss") THEN d
    ELSE IF ~Has(d.eventRuns, eventName) THEN d
    ELSE IF result = "loss"
         THEN Tick([d EXCEPT !.eventRuns[eventName] =
                        [@ EXCEPT !.losses = @ + 1, !.updated_at = d.clock + 1]])
         ELSE Tick([d EXCEPT !.eventRuns[eventName] =
                        [@ EXCEPT !.wins = @ + 1, !.updated_at = d.clock + 1]])

NewMatch ==
    [event_name |-> "", player_seat_id |-> 0, opponent_name |-> "", opponent_user_id |-> "",
     started_at |-> 0, ended_at |-> 0, result |-> "", win_reason |-> "",
     turn_count |-> 0, seconds_count |-> 0]

\* variant: started_at = COALESCE(excluded.started_at, matches.started_at)
UpsertMatchStartLatest(d, arenaMatchID, eventName, seatID, startedAt) ==
    LET resolvedEventName == IF eventName # "" THEN resolveEventNameAlias(d, eventName) ELSE eventName
        now == d.clock + 1
        row == IF Has(d.matches, arenaMatchID)
               THEN [d.matches[arenaMatchID] EXCEPT
                        !.event_name = Coalesce(resolvedEventName, @),
                        !.player_seat_id = CoalesceInt(seatID, @),
                        !.started_at = CoalesceInt(startedAt, @)]
               ELSE [NewMatch EXCEPT !.event_name = resolvedEventName,
                                     !.player_seat_id = seatID,
                                     !.started_at = startedAt]
    IN  Tick([d EXCEPT !.matches = Put(@, arenaMatchID, row)])

UpsertMatchStart(d, arenaMatchID, eventName, seatID, startedAt) ==
    LET resolvedEventName == IF eventName # "" THEN resolveEventNameAlias(d, eventName) ELSE eventName
        now == d.clock + 1
        row == IF Has(d.matches, arenaMatchID)
               THEN [d.matches[arenaMatchID] EXCEPT
                        !.event_name = Coalesce(nullIfEmpty(resolvedEventName), @),
                        !.player_seat_id = CoalesceInt(seatID, @),
                        !.started_at = CoalesceInt(@, startedAt)]
               ELSE [NewMatch EXCEPT !.event_name = nullIfEmpty(resolvedEventName),
                                     !.player_seat_id = seatID,
                                     !.started_at = startedAt]
        d1 == [d EXCEPT !.matches = Put(@, arenaMatchID, row)]
        run == IF Has(d1.eventRuns, resolvedEventName)
               THEN [d1.eventRuns[resolvedEventName] EXCEPT !.updated_at = now]
               ELSE [event_type |-> detectEventType(resolvedEventName), status |-> "active",
                     started_at |-> startedAt, ended_at |-> 0, wins |-> 0, losses |-> 0,
                     updated_at |-> now]
    IN  IF resolvedEventName # ""
        THEN Tick([d1 EXCEPT !.eventRuns = Put(@, resolvedEventName, run)])
        ELSE Tick(d1)

UpdateMatchOpponent(d, arenaMatchID, opponentName, opponentUserID) ==
    IF Has(d.matches, arenaMatchID)
    THEN Tick([d EXCEPT !.matches[arenaMatchID] =
                   [@ EXCEPT !.opponent_name = Coalesce(opponentName, @),
                             !.opponent_user_id = Coalesce(opponentUserID, @)]])
    ELSE d

\* result := win / loss / unknown from the two team ids
\* variant: the ids are compared without the test that both are positive
DeriveResultNoSign(teamID, winningTeamID) ==
    IF teamID = winningTeamID THEN "win" ELSE "loss"

DeriveResult(teamID, winningTeamID) ==
    IF teamID > 0 /\ winningTeamID > 0
    THEN (IF teamID = winningTeamID THEN "win" ELSE "loss")
    ELSE "unknown"

\* variant: result = COALESCE of the derived win or loss and the stored result
UpdateMatchEndKeepsKnown(d, arenaMatchID, teamID, winningTeamID, turnCount, secondsCount, winReason, endedAt) ==
    LET found == Has(d.matches, arenaMatchID)
        eventName == IF found THEN d.matches[arenaMatchID].event_name ELSE ""
        d1 == IF found THEN d
              ELSE [d EXCEPT !.matches = Put(@, arenaMatchID, [NewMatch EXCEPT !.ended_at = endedAt])]
        result == DeriveResult(teamID, winningTeamID)
        d2 == Tick([d1 EXCEPT !.matches[arenaMatchID] =
                       [@ EXCEPT !.ended_at = CoalesceInt(endedAt, @),
                                 !.result = IF result = "unknown" /\ @ # "" THEN @ ELSE result,
                                 !.win_reason = Coalesce(winReason, @),
                                 !.turn_count = CoalesceInt(turnCount, @),
                                 !.seconds_count = CoalesceInt(secondsCount, @)]])
    IN  IF eventName # "" /\ (result = "win" \/ result = "loss")
        THEN BumpEventRunRecord(d2, eventName, result)
        ELSE d2

UpdateMatchEnd(d, arenaMatchID, teamID, winningTeamID, turnCount, secondsCount, winReason, endedAt) ==
    LET found == Has(d.matches, arenaMatchID)
        eventName == IF found THEN d.matches[arenaMatchID].event_name ELSE ""
        d1 == IF found THEN d
              ELSE [d EXCEPT !.matches = Put(@, arenaMatchID, [NewMatch EXCEPT !.ended_at = endedAt])]
        result == DeriveResult(teamID, winningTeamID)
        d2 == Tick([d1 EXCEPT !.matches[arenaMatchID] =
                       [@ EXCEPT !.ended_at = CoalesceInt(endedAt, @),
                                 !.result = result,
                                 !.win_reason = Coalesce(winReason, @),
                                 !.turn_count = CoalesceInt(turnCount, @),
                                 !.seconds_count = CoalesceInt(secondsCount, @)]])
    IN  IF eventName # "" /\ (result = "win" \/ result = "loss")
        THEN BumpEventRunRecord(d2, eventName, result)
        ELSE d2

DeckCard(section, cardID, quantity) ==
    [section |-> section, card_id |-> cardID, quantity |-> quantity]

\* a deck_cards row; the deck is named by its arena_deck_id
DeckCardRow(arenaDeckID, c) ==
    [deck |-> arenaDeckID, section |-> c.section, card_id |-> c.card_id,
     quantity |-> c.quantity]

\* variant: the deck's rows are not deleted before the insert
UpsertDeckNoClear(d, arenaDeckID, eventName, name, format, source, lastUpdated, cards) ==
    LET kept == SelectSeq(cards, LAMBDA c : c.quantity > 0)
    IN  Tick([d EXCEPT !.deckCards =
                  @ \o [i \in 1..Len(kept) |-> DeckCardRow(arenaDeckID, kept[i])]])

UpsertDeck(d, arenaDeckID, eventName, name, format, source, lastUpdated, cards) ==
    LET now == d.clock + 1
        row == IF Has(d.decks, arenaDeckID)
               THEN [d.decks[arenaDeckID] EXCEPT
                        !.event_name = Coalesce(eventName, @),
                        !.name = Coalesce(name, @),
                        !.format = Coalesce(format, @),
                        !.source = Coalesce(source, @),
                        !.last_updated = CoalesceInt(lastUpdated, @),
                        !.updated_at = now]
               ELSE [event_name |-> eventName, name |-> name, format |-> format,
                     source |-> source, last_updated |-> lastUpdated, updated_at |-> now]
        others == SelectSeq(d.deckCards, LAMBDA r : r.deck # arenaDeckID)
        kept == SelectSeq(cards, LAMBDA c : c.quantity > 0)
    IN  Tick([d EXCEPT !.decks = Put(@, arenaDeckID, row),
                       !.deckCards =
                           others \o [i \in 1..Len(kept) |-> DeckCardRow(arenaDeckID, kept[i])]])

\* ORDER BY COALESCE(last_updated, updated_at) DESC LIMIT 1
LatestDeck(d, ids) ==
    CHOOSE i \in ids : \A o \in ids :
        CoalesceInt(d.decks[i].last_updated, d.decks[i].updated_at)
          >= CoalesceInt(d.decks[o].last_updated, d.decks[o].updated_at)

\* variant: ON CONFLICT(match_id, deck_id) DO UPDATE SET snapshot_reason
LinkMatchToLatestDeckByEventRewrite(d, arenaMatchID, eventName0, reason) ==
    IF eventName0 = "" THEN d
    ELSE LET alias == resolveEventNameAlias(d, eventName0)
             eventName == IF alias # "" THEN alias ELSE eventName0
             ids == {i \in DOMAIN d.decks : d.decks[i].event_name = eventName}
         IN  IF ~Has(d.matches, arenaMatchID) \/ ids = {} THEN d
             ELSE [d EXCEPT !.matchDecks = Put(@, <<arenaMatchID, LatestDeck(d, ids)>>, reason)]

LinkMatchToLatestDeckByEvent(d, arenaMatchID, eventName0, reason) ==
    IF eventName0 = "" THEN d
    ELSE LET alias == resolveEventNameAlias(d, eventName0)
             eventName == IF alias # "" THEN alias ELSE eventName0
             ids == {i \in DOMAIN d.decks : d.decks[i].event_name = eventName}
         IN  IF ~Has(d.matches, arenaMatchID) \/ ids = {} THEN d
             ELSE LET key == <<arenaMatchID, LatestDeck(d, ids)>>
                  IN  IF Has(d.matchDecks, key) THEN d
                      ELSE [d EXCEPT !.matchDecks = Put(@, key, reason)]

\* The two observation upserts, as the data model states them: one row per
\* (match, game_number, instance_id), written by the first observation only,
\* game_number 1 (the parser's call passes none), nothing for a match that
\* has no row.
\* variant: a later observation replaces the row
UpsertMatchCardPlayLast(d, arenaMatchID, instanceID, grpID, ownerSeatID, turnNumber, phase, zoneType, playedAt) ==
    IF ~Has(d.matches, arenaMatchID) THEN d
    ELSE [d EXCEPT !.plays = Put(@, <<arenaMatchID, 1, instanceID>>,
             [card_id |-> grpID, owner_seat_id |-> ownerSeatID, turn_number |-> turnNumber,
              phase |-> phase, first_public_zone |-> zoneType, played_at |-> playedAt])]

UpsertMatchCardPlay(d, arenaMatchID, instanceID, grpID, ownerSeatID, turnNumber, phase, zoneType, playedAt) ==
    LET key == <<arenaMatchID, 1, instanceID>>
    IN  IF ~Has(d.matches, arenaMatchID) \/ Has(d.plays, key) THEN d
        ELSE [d EXCEPT !.plays = Put(@, key,
                 [card_id |-> grpID, owner_seat_id |-> ownerSeatID, turn_number |-> turnNumber,
                  phase |-> phase, first_public_zone |-> zoneType, played_at |-> playedAt])]

\* variant: a later sighting replaces the row
UpsertMatchOpponentCardInstanceLast(d, arenaMatchID, instanceID, grpID, firstSeenAt) ==
    IF ~Has(d.matches, arenaMatchID) THEN d
    ELSE [d EXCEPT !.oppCards = Put(@, <<arenaMatchID, 1, instanceID>>,
             [card_id |-> grpID, first_seen_at |-> firstSeenAt])]

UpsertMatchOpponentCardInstance(d, arenaMatchID, instanceID, grpID, firstSeenAt) ==
    LET key == <<arenaMatchID, 1, instanceID>>
    IN  IF ~Has(d.matches, arenaMatchID) \/ Has(d.oppCards, key) THEN d
        ELSE [d EXCEPT !.oppCards = Put(@, key, [card_id |-> grpID, first_seen_at |-> firstSeenAt])]

\* the value of a column that holds SQL NULL where the empty string is a
\* value of its own
SqlNull == "<NULL>"

\* SELECT id ... ORDER BY id DESC LIMIT 1 over the draft sessions that
\* satisfy sel; 0 stands for sql.ErrNoRows
LastSession(d, sel(_)) ==
    LET ids == {i \in 1..Len(d.draftSessions) : sel(d.draftSessions[i])}
    IN  IF ids = {} THEN 0 ELSE CHOOSE i \in ids : \A j \in ids : j <= i

\* the result is the content after the call and the session id; draftID ""
\* stands for a nil or empty draft id (the ids of the model carry no blanks)
EnsureDraftSessionAnyState(d, eventName, draftID, isBot, ts) ==
    LET byDraft == LastSession(d, LAMBDA r : r.draft_id = draftID /\ r.is_bot_draft = isBot)
        active == LastSession(d, LAMBDA r : /\ r.event_name # ""
                                            /\ r.event_name = eventName
                                            /\ r.is_bot_draft = isBot)
        row == [event_name |-> eventName, draft_id |-> draftID, is_bot_draft |-> isBot,
                started_at |-> ts, completed_at |-> SqlNull]
    IN  IF draftID # "" /\ byDraft # 0
        THEN [d |-> Tick([d EXCEPT !.draftSessions[byDraft].event_name = Coalesce(eventName, @)]),
              id |-> byDraft]
        ELSE IF draftID = "" /\ active # 0 THEN [d |-> d, id |-> active]
        ELSE [d |-> Tick([d EXCEPT !.draftSessions = Append(@, row)]),
              id |-> Len(d.draftSessions) + 1]

EnsureDraftSession(d, eventName, draftID, isBot, ts) ==
    LET byDraft == LastSession(d, LAMBDA r : r.draft_id = draftID /\ r.is_bot_draft = isBot)
        active == LastSession(d, LAMBDA r : /\ r.event_name # ""
                                            /\ r.event_name = eventName
                                            /\ r.is_bot_draft = isBot
                                            /\ r.completed_at = SqlNull)
        row == [event_name |-> eventName, draft_id |-> draftID, is_bot_draft |-> isBot,
                started_at |-> ts, completed_at |-> SqlNull]
    IN  IF draftID # "" /\ byDraft # 0
        THEN [d |-> Tick([d EXCEPT !.draftSessions[byDraft].event_name = Coalesce(eventName, @)]),
              id |-> byDraft]
        ELSE IF draftID = "" /\ active # 0 THEN [d |-> d, id |-> active]
        ELSE [d |-> Tick([d EXCEPT !.draftSessions = Append(@, row)]),
              id |-> Len(d.draftSessions) + 1]

\* ON CONFLICT(draft_session_id, pack_number, pick_number) DO UPDATE
InsertDraftPick(d, sessionID, packNo, pickNo, pickedIDs) ==
    Tick([d EXCEPT !.draftPicks = Put(@, <<sessionID, packNo, pickNo>>,
                                      [picked_card_ids |-> pickedIDs])])

\* completed_at = COALESCE(completed_at, ts): ts is bound as it is, so an
\* empty ts is stored as the empty string, which is not NULL
CompleteDraftSession(d, eventName, draftID, isBot, ts) ==
    LET done(r) == [r EXCEPT !.completed_at = IF @ = SqlNull THEN ts ELSE @]
        last == LastSession(d, LAMBDA r : /\ r.event_name # ""
                                          /\ r.event_name = eventName
                                          /\ r.is_bot_draft = isBot)
    IN  IF draftID # ""
        THEN Tick([d EXCEPT !.draftSessions =
                     [i \in 1..Len(@) |->
                        IF @[i].draft_id = draftID /\ @[i].is_bot_draft = isBot
                        THEN done(@[i]) ELSE @[i]]])
        ELSE IF eventName # ""
        THEN Tick([d EXCEPT !.draftSessions =
                     [i \in 1..Len(@) |-> IF i = last THEN done(@[i]) ELSE @[i]]])
        ELSE d

(***************************************************************************)
(* The correlator state (internal/ingest/parser.go, parseState).            *)
(***************************************************************************)
EmptyState ==
    [personaID |-> "", playerName |-> "", activeMatchID |-> "",
     selfSeatByMatch |-> EmptyMap, turnByMatch |-> EmptyMap,
     phaseByMatch |-> EmptyMap, zoneTypeByMatch |-> EmptyMap]

\* NewParser: an empty stateByLog map
NewParser == EmptyMap

\* stateForLog returns the state object of the path, after replacing it by a
\* fresh one when reset is set or when there is none; the result is the
\* stateByLog map after the call
\* variant: every call hands out a fresh state
stateForLogFresh(byLog, logPath, reset) == Put(byLog, logPath, EmptyState)

stateForLog(byLog, logPath, reset) ==
    IF reset \/ ~Has(byLog, logPath) THEN Put(byLog, logPath, EmptyState) ELSE byLog

rememberSelfSeat(s, matchID, seatID) ==
    IF matchID = "" \/ seatID <= 0 THEN s
    ELSE [s EXCEPT !.selfSeatByMatch = Put(@, matchID, seatID)]

selfSeat(s, matchID) == IF matchID = "" THEN 0 ELSE Get(s.selfSeatByMatch, matchID, 0)

\* strings.TrimPrefix of "Phase_" / "Step_" and ToLower, over the phases of the model
normalizeGREPhase(raw) ==
    CASE raw = "Phase_Main1" -> "main1"
      [] raw = "Phase_Combat" -> "combat"
      [] raw = "Step_Draw" -> "draw"
      [] OTHER -> raw

\* strings.TrimPrefix of "ZoneType_" and ToLower, over the zone types of the model
normalizeGREZoneType(raw) ==
    CASE raw = "ZoneType_Battlefield" -> "battlefield"
      [] raw = "ZoneType_Stack" -> "stack"
      [] raw = "ZoneType_Hand" -> "hand"
      [] raw = "ZoneType_Library" -> "library"
      [] OTHER -> raw

rememberTurn(s, matchID, turnNumber) ==
    IF matchID = "" \/ turnNumber <= 0 THEN s
    ELSE [s EXCEPT !.turnByMatch = Put(@, matchID, turnNumber)]

turn(s, matchID) == IF matchID = "" THEN 0 ELSE Get(s.turnByMatch, matchID, 0)

rememberPhase(s, matchID, phase0) ==
    LET phase == normalizeGREPhase(phase0)
    IN  IF matchID = "" \/ phase = "" THEN s
        ELSE [s EXCEPT !.phaseByMatch = Put(@, matchID, phase)]

phase(s, matchID) == IF matchID = "" THEN "" ELSE Get(s.phaseByMatch, matchID, "")

rememberZoneType(s, matchID, zoneID, zoneType0) ==
    LET zoneType == normalizeGREZoneType(zoneType0)
    IN  IF matchID = "" \/ zoneID <= 0 \/ zoneType = "" THEN s
        ELSE [s EXCEPT !.zoneTypeByMatch =
                 Put(@, matchID, Put(Get(@, matchID, EmptyMap), zoneID, zoneType))]

zoneType(s, matchID, zoneID) ==
    IF matchID = "" \/ zoneID <= 0 THEN ""
    ELSE Get(Get(s.zoneTypeByMatch, matchID, EmptyMap), zoneID, "")

\* The decimal timestamp of an envelope, as an instant in milliseconds (0 when
\* absent).  The model's epoch is scaled down by 10^8: values in [10, 100)
\* are seconds, values in [10000, 100000) are milliseconds.
parseRoomTimestamp(raw) ==
    CASE raw >= 10 * 1000 /\ raw < 100 * 1000 -> raw
      [] raw >= 10 /\ raw < 100 -> raw * 1000
      [] OTHER -> 0

RECURSIVE roomEventNameFrom(_, _)
roomEventNameFrom(players, i) ==
    IF i > Len(players) THEN ""
    ELSE IF players[i].eventId # "" THEN players[i].eventId
    ELSE roomEventNameFrom(players, i + 1)

roomEventName(players) == roomEventNameFrom(players, 1)

\* over the reasons of the model
normalizeWinningReason(reason) ==
    CASE reason = "ResultReason_Game" -> "Game"
      [] reason = "ResultReason_Concede" -> "Concede"
      [] reason = "WinningReason_Concede" -> "Concede"
      [] OTHER -> reason

\* the result entry chooseMatchResult returns: <<winning team, reason>>
RECURSIVE chooseFrom(_, _, _)
chooseFrom(results, i, fallback) ==
    IF i > Len(results) THEN fallback
    ELSE LET r == results[i]
             reason == normalizeWinningReason(r.reason)
         IN  IF r.winningTeamId <= 0 THEN chooseFrom(results, i + 1, fallback)
             ELSE IF r.scope = "MatchScope_Match" THEN <<r.winningTeamId, reason>>
             ELSE IF fallback[1] = 0 THEN chooseFrom(results, i + 1, <<r.winningTeamId, reason>>)
             ELSE chooseFrom(results, i + 1, fallback)

chooseMatchResult(results) == chooseFrom(results, 1, <<0, "">>)

isTimelinePlayableZone(zt) == zt = "stack" \/ zt = "battlefield"

fallbackGREZoneType(zoneID) ==
    CASE zoneID = 27 -> "stack"
      [] zoneID = 28 -> "battlefield"
      [] OTHER -> ""

\* a pair of correlator state and database content, as the handlers pass it on
SD(s, d) == [s |-> s, d |-> d]

(***************************************************************************)
(* The line handlers (internal/ingest/parser.go).  `complete` tells whether *)
(* the text holds the whole line; a text cut before the tail byte does not  *)
(* decode as JSON.                                                          *)
(***************************************************************************)
\* one turn of the loop over gameObjects
\* variant: the token flag is not looked at
greObjectTokens(s, d, matchID, self, turnNumber, ph, eventTS, obj) ==
    LET zt0 == zoneType(s, matchID, obj.zoneId)
        zt == IF zt0 = "" THEN fallbackGREZoneType(obj.zoneId) ELSE zt0
        d1 == IF isTimelinePlayableZone(zt)
              THEN UpsertMatchCardPlay(d, matchID, obj.instanceId, obj.grpId,
                                       obj.ownerSeatId, turnNumber, ph, zt, eventTS)
              ELSE d
        d2 == IF self <= 0 \/ obj.ownerSeatId = self THEN d1
              ELSE UpsertMatchOpponentCardInstance(d1, matchID, obj.instanceId,
                                                   obj.grpId, eventTS)
    IN  IF obj.instanceId <= 0 \/ obj.grpId <= 0 \/ obj.ownerSeatId <= 0
           \/ obj.type # "GameObjectType_Card" \/ obj.visibility # "Visibility_Public"
        THEN d ELSE d2

greObject(s, d, matchID, self, turnNumber, ph, eventTS, obj) ==
    LET zt0 == zoneType(s, matchID, obj.zoneId)
        zt == IF zt0 = "" THEN fallbackGREZoneType(obj.zoneId) ELSE zt0
        d1 == IF ~obj.isToken /\ isTimelinePlayableZone(zt)
              THEN UpsertMatchCardPlay(d, matchID, obj.instanceId, obj.grpId,
                                       obj.ownerSeatId, turnNumber, ph, zt, eventTS)
              ELSE d
        d2 == IF self <= 0 \/ obj.isToken \/ obj.ownerSeatId = self THEN d1
              ELSE UpsertMatchOpponentCardInstance(d1, matchID, obj.instanceId,
                                                   obj.grpId, eventTS)
    IN  IF obj.instanceId <= 0 \/ obj.grpId <= 0 \/ obj.ownerSeatId <= 0
           \/ obj.type # "GameObjectType_Card" \/ obj.visibility # "Visibility_Public"
        THEN d ELSE d2

RECURSIVE greObjects(_, _, _, _, _, _, _, _, _)
greObjects(s, d, matchID, self, turnNumber, ph, eventTS, objs, i) ==
    IF i > Len(objs) THEN d
    ELSE greObjects(s, greObject(s, d, matchID, self, turnNumber, ph, eventTS, objs[i]),
                    matchID, self, turnNumber, ph, eventTS, objs, i + 1)

RECURSIVE rememberZones(_, _, _, _)
rememberZones(s, matchID, zones, i) ==
    IF i > Len(zones) THEN s
    ELSE rememberZones(rememberZoneType(s, matchID, zones[i].zoneId, zones[i].type),
                       matchID, zones, i + 1)

\* the single seat of systemSeatIds, 0 when the list is not one positive value
SingleSeat(seats) == IF Len(seats) = 1 /\ seats[1] > 0 THEN seats[1] ELSE 0

handleGREJSON(s, d, p, complete) ==
    IF ~complete THEN SD(s, d)
    ELSE LET eventTS == parseRoomTimestamp(p.ts)
             known == selfSeat(s, p.m)
             seat1 == IF known <= 0 /\ SingleSeat(p.seats) > 0 THEN SingleSeat(p.seats) ELSE known
             \* the gameInfo.matchID branch
             d1 == IF p.m # "" THEN UpsertMatchStart(d, p.m, "", seat1, eventTS) ELSE d
             s1 == IF p.m # ""
                   THEN rememberSelfSeat([s EXCEPT !.activeMatchID = p.m], p.m, seat1)
                   ELSE s
             matchID == IF p.m # "" THEN p.m ELSE s.activeMatchID
             s2 == IF p.hasTurn
                   THEN rememberPhase(rememberTurn(s1, matchID, p.turn), matchID, p.phase)
                   ELSE s1
             s3 == rememberZones(s2, matchID, p.zones, 1)
             known3 == selfSeat(s3, matchID)
             self == IF known3 <= 0 /\ SingleSeat(p.seats) > 0 THEN SingleSeat(p.seats) ELSE known3
             s4 == IF known3 <= 0 /\ SingleSeat(p.seats) > 0
                   THEN rememberSelfSeat(s3, matchID, self) ELSE s3
         IN  IF matchID = "" THEN SD(s1, d1)
             ELSE SD(s4, greObjects(s4, d1, matchID, self, turn(s4, matchID),
                                    phase(s4, matchID), eventTS, p.objs, 1))

\* the LogBusinessEvents branch of handleOutgoing
handleBusinessEvent(s, d, p) ==
    CASE p.etype = 3 /\ p.m # "" ->
            \* EventId, else EventName; the model's lines carry one name
            LET d1 == UpsertMatchStart(d, p.m, p.e, p.seat, p.ts)
                s1 == rememberSelfSeat([s EXCEPT !.activeMatchID = p.m], p.m, p.seat)
            IN  SD(s1, LinkMatchToLatestDeckByEvent(d1, p.m, p.e, "pre_match"))
      [] p.etype = 4 /\ p.m # "" ->
            SD(s, UpdateMatchEnd(d, p.m, p.team, p.wteam, p.turns, p.secs, p.reason, p.ts))
      [] OTHER -> SD(s, d)

cardSectionCards(section, in) ==
    LET kept == SelectSeq(in, LAMBDA c : c.quantity > 0)
    IN  [i \in 1..Len(kept) |-> DeckCard(section, kept[i].cardId, kept[i].quantity)]

\* strconv.ParseInt over the id strings of the model; every other string
\* is not a number
DecimalIDs == [str \in {"101", "102"} |-> IF str = "101" THEN 101 ELSE 102]

RECURSIVE parseStringIDsToInt64(_)
parseStringIDsToInt64(in) ==
    IF in = <<>> THEN <<>>
    ELSE IF in[1] \in DOMAIN DecimalIDs
         THEN <<DecimalIDs[in[1]]>> \o parseStringIDsToInt64(Tail(in))
         ELSE parseStringIDsToInt64(Tail(in))

\* the payload decoded from the request attribute: "" (none), "fields" (the
\* text of a JSON object) or "string" (a JSON string)
decodeRawRequest(request) ==
    CASE request = "absent" -> ""
      [] request = "quoted" -> "fields"
      [] request = "quoted_text" -> "string"
      [] OTHER -> "fields"

\* variant: the envelope that is not JSON is handled as an EventJoin of E1
outgoingUnparsedJoins(s, d, p, line, offset) ==
    SD(s, UpsertEventRunJoin(InsertRawEvent(d, line, offset, "outgoing", p.method, ""), "E1", 0))

\* the branch of handleOutgoing for an envelope that json.Unmarshal rejects
outgoingUnparsed(s, d, p, line, offset) ==
    SD(s, InsertRawEvent(d, line, offset, "outgoing_unparsed", p.method, ""))

handleOutgoing(s, d, p, complete, line, offset) ==
    IF ~complete THEN outgoingUnparsed(s, d, p, line, offset)
    ELSE LET requestPayload == decodeRawRequest(p.request)
             d1 == InsertRawEvent(d, line, offset, "outgoing", p.method, requestPayload)
         IN  \* json.Unmarshal of the payload into the request struct fails
             IF requestPayload # "fields" THEN SD(s, d1)
             ELSE
             CASE p.method = "EventJoin" ->
                     IF p.e = "" THEN SD(s, d1) ELSE SD(s, UpsertEventRunJoin(d1, p.e, 0))
               [] p.method = "EventClaimPrize" ->
                     IF p.e = "" THEN SD(s, d1) ELSE SD(s, MarkEventRunClaimed(d1, p.e, 0))
               [] p.method = "EventSetDeckV2" ->
                     IF p.deckId = "" THEN SD(s, d1)
                     ELSE SD(s, UpsertDeck(d1, p.deckId, p.e, p.dname, p.format,
                                           "event_set_deck", p.ts,
                                           cardSectionCards("main", p.mainDeck)
                                             \o cardSectionCards("sideboard", p.sideboard)
                                             \o cardSectionCards("command", p.commandZone)
                                             \o cardSectionCards("companion", p.companions)))
               [] p.method = "EventPlayerDraftMakePick" ->
                     IF p.draftId = "" THEN SD(s, d1)
                     ELSE LET r == EnsureDraftSession(d1, "", p.draftId, FALSE, "")
                          IN  SD(s, InsertDraftPick(r.d, r.id, p.pack, p.pick, p.grpIds))
               [] p.method = "BotDraftDraftPick" ->
                     IF p.e = "" THEN SD(s, d1)
                     ELSE LET r == EnsureDraftSession(d1, p.e, "", TRUE, "")
                          IN  SD(s, InsertDraftPick(r.d, r.id, p.pack, p.pick,
                                                    parseStringIDsToInt64(p.cardIds)))
               [] p.method = "DraftCompleteDraft" ->
                     SD(s, CompleteDraftSession(d1, p.e, "", p.isBot, ""))
               [] p.method = "LogBusinessEvents" -> handleBusinessEvent(s, d1, p)
               [] OTHER -> SD(s, d1)

\* the loop over the players of a room-state envelope; acc holds its locals
RECURSIVE roomPlayers(_, _, _, _)
roomPlayers(players, i, personaID, acc) ==
    IF i > Len(players) THEN acc
    ELSE LET pl == players[i]
         IN  IF personaID # "" /\ pl.userId = personaID
             THEN roomPlayers(players, i + 1, personaID,
                     [acc EXCEPT !.selfSeen = TRUE,
                                 !.selfSeatID = IF pl.systemSeatId > 0 THEN pl.systemSeatId ELSE @,
                                 !.selfTeamID = IF pl.teamId > 0 THEN pl.teamId ELSE @,
                                 !.playerName = IF @ = "" /\ pl.playerName # ""
                                                THEN pl.playerName ELSE @])
             ELSE IF acc.opponentName = ""
                     /\ ~(acc.playerName # "" /\ pl.playerName = acc.playerName)
             THEN roomPlayers(players, i + 1, personaID,
                     [acc EXCEPT !.opponentName = pl.playerName,
                                 !.opponentUserID = pl.userId])
             ELSE roomPlayers(players, i + 1, personaID, acc)

handleRoomStateJSON(s, d, p, complete, line, offset) ==
    IF ~complete \/ p.m = "" THEN SD(s, d)
    ELSE LET players == IF Len(p.reserved) > 0 THEN p.reserved ELSE p.players
             eventName == IF roomEventName(p.reserved) # "" THEN roomEventName(p.reserved)
                          ELSE roomEventName(players)
             matchTS == parseRoomTimestamp(p.ts)
             acc == roomPlayers(players, 1, s.personaID,
                        [selfSeen |-> FALSE, selfSeatID |-> 0, selfTeamID |-> 0,
                         opponentName |-> "", opponentUserID |-> "",
                         playerName |-> s.playerName])
             d1 == UpsertMatchStart(d, p.m, eventName, acc.selfSeatID, matchTS)
             s1 == rememberSelfSeat([s EXCEPT !.playerName = acc.playerName,
                                              !.activeMatchID = p.m], p.m, acc.selfSeatID)
             d2 == IF eventName # "" THEN LinkMatchToLatestDeckByEvent(d1, p.m, eventName, "room_state")
                   ELSE d1
             d3 == IF acc.selfSeen /\ (acc.opponentName # "" \/ acc.opponentUserID # "")
                   THEN UpdateMatchOpponent(d2, p.m, acc.opponentName, acc.opponentUserID)
                   ELSE d2
             win == chooseMatchResult(p.results)
             d4 == IF p.stateType = "MatchGameRoomStateType_MatchCompleted"
                      /\ acc.selfTeamID > 0 /\ p.hasFinal /\ win[1] > 0
                   THEN UpdateMatchEnd(d3, p.m, acc.selfTeamID, win[1], 0, 0, win[2], matchTS)
                   ELSE d3
         IN  SD(s1, InsertRawEvent(d4, line, offset, "room_state", "matchGameRoomStateChangedEvent", ""))

\* strings.HasPrefix(id, "NoInstallID"), over the ids of the model
NoInstallID(id) == id \in {"NoInstallID", "NoInstallID_1"}

\* what the persona patterns set state.personaID to, given the line's candidate
learnPersona(s, p) ==
    IF s.personaID # "" \/ p.pid = "" THEN s
    ELSE CASE p.pidSrc \in {"PersonaId", "PersonaIdEscaped"} ->
                 IF NoInstallID(p.pid) THEN s ELSE [s EXCEPT !.personaID = p.pid]
           [] p.pidSrc \in {"MatchTo", "clientId"} -> [s EXCEPT !.personaID = p.pid]
           [] OTHER -> s

learnName(s, p) ==
    IF s.playerName = "" /\ p.sname # "" THEN [s EXCEPT !.playerName = p.sname] ELSE s

\* the block "if strings.HasPrefix(line, "{")" of processLine: the room-state
\* token is looked for before the game-engine token
\* variant: the game-engine token is looked for first
braceLineGREFirst(s, d, p, complete, line, offset) ==
    IF p.head # "{" THEN SD(s, d)
    ELSE IF GREToken \in p.tokens THEN handleGREJSON(s, d, p, complete)
    ELSE IF RoomToken \in p.tokens THEN handleRoomStateJSON(s, d, p, complete, line, offset)
    ELSE SD(s, d)

braceLine(s, d, p, complete, line, offset) ==
    IF p.head # "{" THEN SD(s, d)
    ELSE IF RoomToken \in p.tokens THEN handleRoomStateJSON(s, d, p, complete, line, offset)
    ELSE IF GREToken \in p.tokens THEN handleGREJSON(s, d, p, complete)
    ELSE SD(s, d)

\* processLine on the text of one line (the bytes before its terminator);
\* p.head is how the text begins ("==>": reOutgoing matches, "<==":
\* reComplete matches, "{", or "" for anything else) and p.tokens are the
\* tokens it holds
processLine(s, d, text, line, offset) ==
    IF text = <<>> \/ text[1].t # "H" THEN SD(s, d)
    ELSE LET p == text[1].p
             \* the text of the line is whole and is JSON where JSON is read
             complete == Len(text) >= 2 /\ ~p.badJSON
             s1 == learnName(learnPersona(s, p), p)
         IN  IF p.head = "==>" THEN handleOutgoing(s1, d, p, complete, line, offset)
             ELSE IF p.head = "<=="
             THEN (IF complete
                   THEN SD(s1, InsertRawEvent(d, line, offset, "method_complete", p.method, ""))
                   ELSE SD(s1, d))
             ELSE braceLine(s1, d, p, complete, line, offset)

(***************************************************************************)
(* The file and its writer (the game client): it appends whole lines, byte  *)
(* by byte, or replaces the file by an empty one (rotation, truncation).    *)
(***************************************************************************)
\* one whole line of the log: header, text, newline
LineOf(p) == <<H(p), T, NL>>

BlankLine == [Base EXCEPT !.k = "blank"]

EndsLine(f) == IF f = <<>> THEN TRUE ELSE f[Len(f)].t = "NL"

NumLines(f) == Cardinality({i \in 1..Len(f) : f[i].t = "NL"}) + (IF EndsLine(f) THEN 0 ELSE 1)

\* the bytes the writer may append next, writing lines of the given kinds
NextBytes(f, kinds) ==
    IF EndsLine(f)
    THEN (IF NumLines(f) < MaxLines
          THEN {IF p.k = "blank" THEN NL ELSE H(p) : p \in kinds} ELSE {})
    ELSE IF f[Len(f)].t = "H" THEN {T} ELSE {NL}

AppendByte(kinds) ==
    /\ pc = "idle"
    /\ \E b \in NextBytes(file, kinds) :
          /\ file' = Append(file, b)
          /\ hist' = [hist EXCEPT !.handed = Append(@, 0)]
    /\ UNCHANGED <<cli, gen, db, tx, stateByLog, pc, lineNo, byteOffset,
                   linesSinceCommit, linesRead, pass>>

\* the writer appends one whole line of one of the given kinds; lead is the
\* number of lines the file held at first
AppendLine(kinds, lead) ==
    /\ pc = "idle"
    /\ EndsLine(file)
    /\ NumLines(file) < MaxLines + lead
    /\ \E p \in kinds :
          /\ file' = file \o <<H(p), T, NL>>
          /\ hist' = [hist EXCEPT !.handed = Append(Append(Append(@, 0), 0), 0)]
    /\ UNCHANGED <<cli, gen, db, tx, stateByLog, pc, lineNo, byteOffset,
                   linesSinceCommit, linesRead, pass>>

\* the writer appends one empty line
AppendBlank(lead) ==
    /\ pc = "idle"
    /\ EndsLine(file)
    /\ NumLines(file) < MaxLines + lead
    /\ file' = Append(file, NL)
    /\ hist' = [hist EXCEPT !.handed = Append(@, 0)]
    /\ UNCHANGED <<cli, gen, db, tx, stateByLog, pc, lineNo, byteOffset,
                   linesSinceCommit, linesRead, pass>>

Rotate ==
    /\ pc = "idle"
    /\ gen < MaxGen
    /\ file # <<>>
    /\ file' = <<>>
    /\ gen' = gen + 1
    /\ hist' = [hist EXCEPT !.handed = <<>>]
    /\ UNCHANGED <<cli, db, tx, stateByLog, pc, lineNo, byteOffset,
                   linesSinceCommit, linesRead, pass>>

(***************************************************************************)
(* Parser.ParseFile (internal/ingest/parser.go), one step per loop turn.    *)
(***************************************************************************)
\* startOffset / startLine before the size check
\* variant: every pass starts at offset 0
SavedOffsetZero(resume, ing) == 0

SavedOffset(resume, ing) == IF resume /\ ing.found THEN ing.offset ELSE 0

\* variant: every pass starts at line 0
SavedLineZero(resume, ing) == 0

SavedLine(resume, ing) == IF resume /\ ing.found THEN ing.lineNo ELSE 0

\* "if startOffset > info.Size()"
\* variant: the size comparison never fires
PastEOFNever(startOffset, size) == FALSE

PastEOF(startOffset, size) == startOffset > size

\* resetState as passed to stateForLog
\* variant: a shorter file does not reset the correlator state
ResetStateNoRotation(resume, ing, size) ==
    \/ ~resume
    \/ (ing.found /\ ing.offset = 0 /\ ing.lineNo = 0)

ResetState(resume, ing, size) ==
    \/ ~resume
    \/ (ing.found /\ ing.offset = 0 /\ ing.lineNo = 0)
    \/ PastEOF(SavedOffset(resume, ing), size)

\* reader.ReadString('\n') on the unread bytes: the bytes up to and including
\* the first terminator, or all of them (with io.EOF) when there is none
FirstNL(rest) ==
    IF \E i \in 1..Len(rest) : rest[i].t = "NL"
    THEN CHOOSE i \in 1..Len(rest) : rest[i].t = "NL" /\ \A j \in 1..(i - 1) : rest[j].t # "NL"
    ELSE 0

ReadString(rest) == IF FirstNL(rest) > 0 THEN SubSeq(rest, 1, FirstNL(rest)) ELSE rest

\* strings.TrimRight(line, "\r\n")
TrimRight(line) ==
    IF line # <<>> /\ line[Len(line)].t = "NL" THEN SubSeq(line, 1, Len(line) - 1) ELSE line

\* variant: the commit does not save the boundary
CommitNoIngest(t, offset, line, g) == [t EXCEPT !.bgen = g]

\* the commit closure and the final commit: the boundary is saved in the
\* transaction and the transaction becomes the committed content
Commit(t, offset, line, g) == [SaveIngestState(t, offset, line) EXCEPT !.bgen = g]

\* the deferred tx.Rollback(): the committed content stays, the
\* transaction's writes are dropped
\* variant: the transaction's writes stay
RollbackKeepsWrites(d, t) == t

Rollback(d, t) == d

Unread == SubSeq(file, byteOffset + 1, Len(file))

StartPass(resume) ==
    /\ pc = "idle"
    /\ hist.passes < MaxPasses
    /\ LET ing == GetIngestState(db)
           size == Len(file)
           past == PastEOF(SavedOffset(resume, ing), size)
           startOffset == IF past THEN 0 ELSE SavedOffset(resume, ing)
           startLine == IF past THEN 0 ELSE SavedLine(resume, ing)
           byLog == stateForLog(stateByLog, LogPath, ResetState(resume, ing, size))
       IN  /\ stateByLog' = byLog
           /\ tx' = db
           /\ lineNo' = startLine
           /\ byteOffset' = startOffset
           /\ linesSinceCommit' = 0
           /\ linesRead' = 0
           /\ pass' = [resume |-> resume, saved |-> ing, size |-> size,
                       startOffset |-> startOffset, startLine |-> startLine,
                       truncated |-> past, sameFile |-> (db.bgen = gen),
                       startState |-> byLog[LogPath], startDb |-> db, ok |-> FALSE,
                       cancelAt |-> -1]
           /\ hist' = [hist EXCEPT !.passes = @ + 1,
                                   !.undetected = @ \/ (resume /\ ing.found /\ db.bgen # gen
                                                          /\ ing.offset > 0 /\ ing.offset <= size)]
    /\ pc' = "reading"
    /\ UNCHANGED <<cli, file, gen, db>>

\* one turn of the line loop that reads a line
ReadLine ==
    /\ pc = "reading"
    /\ Unread # <<>>
    /\ LET line == ReadString(Unread)
           n == Len(line)
           r == processLine(stateByLog[LogPath], tx, TrimRight(line), lineNo + 1, byteOffset)
           t1 == [r.d EXCEPT !.cov = @ \cup {<<gen, i>> : i \in (byteOffset + 1)..(byteOffset + n)}]
           full == linesSinceCommit + 1 >= batchSize
       IN  /\ lineNo' = lineNo + 1
           /\ byteOffset' = byteOffset + n
           /\ linesRead' = linesRead + 1
           /\ stateByLog' = [stateByLog EXCEPT ![LogPath] = r.s]
           /\ linesSinceCommit' = IF full THEN 0 ELSE linesSinceCommit + 1
           /\ db' = IF full THEN Commit(t1, byteOffset + n, lineNo + 1, gen) ELSE db
           /\ tx' = IF full THEN Commit(t1, byteOffset + n, lineNo + 1, gen) ELSE t1
           /\ hist' = [hist EXCEPT
                  !.handed = [i \in 1..Len(@) |->
                                 IF i > byteOffset /\ i <= byteOffset + n THEN @[i] + 1 ELSE @[i]]]
    /\ UNCHANGED <<cli, file, gen, pc, pass>>

\* end of input: the final SaveIngestState and commit
Finish ==
    /\ pc = "reading"
    /\ Unread = <<>>
    /\ db' = Commit(tx, byteOffset, lineNo, gen)
    /\ tx' = db'
    /\ pc' = "idle"
    /\ pass' = [pass EXCEPT !.ok = TRUE]
    /\ lineNo' = 0
    /\ byteOffset' = 0
    /\ linesSinceCommit' = 0
    /\ UNCHANGED <<cli, file, gen, stateByLog, linesRead, hist>>

\* the pass ends by an error (read error, store error, cancellation, crash);
\* the locals keep their values at the point of failure
Fail ==
    /\ pc = "reading"
    /\ db' = Rollback(db, tx)
    /\ tx' = db'
    /\ pc' = "idle"
    /\ UNCHANGED <<cli, file, gen, stateByLog, lineNo, byteOffset, linesSinceCommit,
                   linesRead, pass, hist>>

\* the pass ends by an error while the next line is processed or its batch
\* is committed: processLine has changed the correlator state, the
\* transaction is rolled back
FailLine ==
    /\ pc = "reading"
    /\ Unread # <<>>
    /\ LET line == ReadString(Unread)
           n == Len(line)
           r == processLine(stateByLog[LogPath], tx, TrimRight(line), lineNo + 1, byteOffset)
       IN  /\ stateByLog' = [stateByLog EXCEPT ![LogPath] = r.s]
           /\ db' = Rollback(db, r.d)
           /\ hist' = [hist EXCEPT
                  !.handed = [i \in 1..Len(@) |->
                                 IF i > byteOffset /\ i <= byteOffset + n THEN @[i] + 1 ELSE @[i]]]
    /\ tx' = db'
    /\ pc' = "idle"
    /\ lineNo' = lineNo + 1
    /\ byteOffset' = byteOffset + Len(ReadString(Unread))
    /\ linesSinceCommit' = linesSinceCommit + 1
    /\ linesRead' = linesRead + 1
    /\ UNCHANGED <<cli, file, gen, pass>>

\* the context of the pass is cancelled (signal.NotifyContext): the pass is
\* in its line loop, which does not look at the context itself
Cancel ==
    /\ pc = "reading"
    /\ pc' = "cancelled"
    /\ pass' = [pass EXCEPT !.cancelAt = lineNo]
    /\ UNCHANGED <<cli, file, gen, db, tx, stateByLog, lineNo, byteOffset,
                   linesSinceCommit, linesRead, hist>>

\* a store call on the transaction returns the error of the context when the
\* context is done
\* variant: the store calls do not look at the context
ctxErrNever(done, calls) == FALSE

ctxErr(done, calls) == done /\ calls

\* the turn of the line loop after processLine has given r for a line of n
\* bytes, under a cancelled context
lineTurnCancelled(r, n) ==
    LET full == linesSinceCommit + 1 >= batchSize
        err == ctxErr(TRUE, IF r.d # tx THEN TRUE ELSE full)
        t1 == [r.d EXCEPT !.cov = @ \cup {<<gen, i>> : i \in (byteOffset + 1)..(byteOffset + n)}]
        t2 == IF err THEN Rollback(db, r.d)
              ELSE IF full THEN Commit(t1, byteOffset + n, lineNo + 1, gen) ELSE t1
    IN  /\ lineNo' = lineNo + 1
        /\ byteOffset' = byteOffset + n
        /\ linesRead' = linesRead + 1
        /\ stateByLog' = [stateByLog EXCEPT ![LogPath] = r.s]
        /\ linesSinceCommit' = IF full /\ ~err THEN 0 ELSE linesSinceCommit + 1
        /\ tx' = t2
        /\ db' = IF err \/ full THEN t2 ELSE db
        /\ pc' = IF err THEN "idle" ELSE "cancelled"
        /\ hist' = [hist EXCEPT
               !.handed = [i \in 1..Len(@) |->
                              IF i > byteOffset /\ i <= byteOffset + n THEN @[i] + 1 ELSE @[i]]]

\* one turn of the line loop under a cancelled context: the line is handed to
\* processLine; the first store call (of the handler, or of the commit
\* closure when the batch is full) fails and ends the pass
ReadLineCancelled ==
    /\ pc = "cancelled"
    /\ Unread # <<>>
    /\ lineTurnCancelled(processLine(stateByLog[LogPath], tx, TrimRight(ReadString(Unread)),
                                     lineNo + 1, byteOffset),
                         Len(ReadString(Unread)))
    /\ UNCHANGED <<cli, file, gen, pass>>

\* end of input under a cancelled context: the final SaveIngestState fails
FinishCancelled ==
    /\ pc = "cancelled"
    /\ Unread = <<>>
    /\ db' = IF ctxErr(TRUE, TRUE) THEN Rollback(db, tx) ELSE Commit(tx, byteOffset, lineNo, gen)
    /\ tx' = db'
    /\ pc' = "idle"
    /\ pass' = [pass EXCEPT !.ok = ~ctxErr(TRUE, TRUE)]
    /\ UNCHANGED <<cli, file, gen, stateByLog, lineNo, byteOffset, linesSinceCommit,
                   linesRead, hist>>

\* one uninterrupted pass with resume off by a new Parser over an empty
\* database: the content it commits
RECURSIVE BackfillFrom(_, _, _, _, _)
BackfillFrom(s, d, f, offset, line) ==
    IF offset >= Len(f) THEN Commit(d, offset, line, 0)
    ELSE LET l == ReadString(SubSeq(f, offset + 1, Len(f)))
             r == processLine(s, d, TrimRight(l), line + 1, offset)
         IN  BackfillFrom(r.s, r.d, f, offset + Len(l), line + 1)

Backfill(f) == BackfillFrom(EmptyState, EmptyDB, f, 0, 0)

\* the rows of every table and the ingest state of the path
Rows(d) ==
    [ingest |-> d.ingest, raw |-> d.raw, eventRuns |-> d.eventRuns, matches |-> d.matches,
     decks |-> d.decks, deckCards |-> d.deckCards, matchDecks |-> d.matchDecks, plays |-> d.plays, oppCards |-> d.oppCards,
     draftSessions |-> d.draftSessions, draftPicks |-> d.draftPicks]

NoPass ==
    [resume |-> TRUE, saved |-> EmptyDB.ingest, size |-> 0, startOffset |-> 0,
     startLine |-> 0, truncated |-> FALSE, sameFile |-> TRUE,
     startState |-> EmptyState, startDb |-> EmptyDB, ok |-> FALSE, cancelAt |-> -1]

NoHist ==
    [handed |-> <<>>, passes |-> 0, undetected |-> FALSE]

\* no command line driver: the passes are started by the specification
NoCli ==
    [at |-> "off", cmd |-> "", resume |-> TRUE, paths |-> <<>>, done |-> 0, ticks |-> 0,
     logged |-> 0, code |-> 0, cause |-> ""]

InitWith(f) ==
    /\ file = f
    /\ gen = 0
    /\ db = EmptyDB
    /\ tx = EmptyDB
    /\ stateByLog = NewParser
    /\ pc = "idle"
    /\ lineNo = 0
    /\ byteOffset = 0
    /\ linesSinceCommit = 0
    /\ linesRead = 0
    /\ pass = NoPass
    /\ hist = [NoHist EXCEPT !.handed = [i \in 1..Len(f) |-> 0]]
    /\ cli = NoCli

(***************************************************************************)
(* Spec: the resume boundary under every way a pass can run.  The writer    *)
(* appends EventJoin lines; the file may be replaced; passes run with       *)
(* resume on or off and may fail.                                           *)
(***************************************************************************)
KindsJoin == {JoinLine("E1")}

Init == InitWith(<<>>)

Next ==
    \/ AppendByte(KindsJoin)
    \/ Rotate
    \/ StartPass(TRUE)
    \/ StartPass(FALSE)
    \/ ReadLine
    \/ Finish
    \/ Fail
    \/ FailLine

Spec == Init /\ [][Next]_vars

(***************************************************************************)
(* SpecResume: successive resume passes without failures over a file that   *)
(* grows byte by byte or is replaced.                                       *)
(***************************************************************************)
NextResume ==
    \/ AppendByte(KindsJoin)
    \/ Rotate
    \/ StartPass(TRUE)
    \/ ReadLine
    \/ Finish

SpecResume == Init /\ [][NextResume]_vars

(***************************************************************************)
(* SpecRotate: successive resume passes over a file that grows by whole     *)
(* lines, EventJoin and game state lines, or is replaced.                   *)
(***************************************************************************)
Battlefield == <<Zone(28, "ZoneType_Battlefield")>>

GreM1 == GRELine("match-1", <<2>>, 1, "Phase_Main1", Battlefield, <<CardObj(101, 5001, 28, 1)>>, 0)

KindsRotate == {JoinLine("E1"), GreM1}

NextRotate ==
    \/ AppendLine(KindsRotate, 0)
    \/ Rotate
    \/ StartPass(TRUE)
    \/ ReadLine
    \/ Finish

SpecRotate == Init /\ [][NextRotate]_vars

(***************************************************************************)
(* SpecTail: the tail loop without failures.  The writer appends whole      *)
(* game state lines, with and without a matchID.                            *)
(***************************************************************************)
GreNoMatch == GRELine("", <<2>>, 2, "Phase_Main1", Battlefield, <<CardObj(102, 5002, 28, 1)>>, 0)

KindsTail == {GreM1, GreNoMatch}

NextTail ==
    \/ AppendLine(KindsTail, 0)
    \/ StartPass(TRUE)
    \/ ReadLine
    \/ Finish

SpecTail == Init /\ [][NextTail]_vars

(***************************************************************************)
(* SpecRetry: the tail loop with failures.  The writer appends whole lines: *)
(* a line that shows the persona id, a room state of a completed match.     *)
(***************************************************************************)
Persona == PersonaLine("self-user", "")

MatchWon == <<ResultEntry("MatchScope_Match", 2, "ResultReason_Game")>>

RoomDone == RoomLine("match-1", "E1", "MatchGameRoomStateType_MatchCompleted", MatchWon, 0)

KindsRetry == {Persona, RoomDone}

NextRetry ==
    \/ AppendLine(KindsRetry, 0)
    \/ StartPass(TRUE)
    \/ ReadLine
    \/ Finish
    \/ Fail
    \/ FailLine

SpecRetry == Init /\ [][NextRetry]_vars

(***************************************************************************)
(* SpecMatch: the records of one match.  The file holds a line that shows   *)
(* the persona id; the writer appends the start and end business events of  *)
(* the match and the room state of its completion.                          *)
(***************************************************************************)
PersonaShown == <<H(Persona), T, NL>>

Start1 == StartLine("match-1", "E1", 2, 0)

EndWin == EndLine("match-1", 2, 2, "ResultReason_Game", 0)

EndLoss == EndLine("match-1", 2, 1, "ResultReason_Game", 0)

EndUnknown == EndLine("match-1", 2, 0, "", 0)

KindsMatch == {Start1, RoomDone, EndWin, EndLoss, EndUnknown}

InitMatch == InitWith(PersonaShown)

NextMatch ==
    \/ AppendLine(KindsMatch, NumLines(PersonaShown))
    \/ StartPass(TRUE)
    \/ ReadLine
    \/ Finish

SpecMatch == InitMatch /\ [][NextMatch]_vars

(***************************************************************************)
(* SpecCards: card observations.  The writer appends game state lines of    *)
(* match-1 that show the same opponent card instance 101 on the battlefield *)
(* with different timestamps and game numbers; passes run with resume on or *)
(* off.                                                                     *)
(***************************************************************************)
Card101 == <<CardObj(101, 5001, 28, 1)>>

\* game 1, timestamp 20000
GreGame1 == GREGameLine("match-1", 1, <<2>>, 2, "Phase_Main1", Battlefield, Card101, 20000)

\* game 2, an earlier timestamp
GreGame2 == GREGameLine("match-1", 2, <<2>>, 1, "Phase_Main1", Battlefield, Card101, 10000)

\* no game number, no timestamp
GreGame0 == GRELine("match-1", <<2>>, 3, "Phase_Main1", Battlefield, Card101, 0)

KindsCards == {GreGame1, GreGame2, GreGame0}

NextCards ==
    \/ AppendLine(KindsCards, 0)
    \/ StartPass(TRUE)
    \/ StartPass(FALSE)
    \/ ReadLine
    \/ Finish

SpecCards == Init /\ [][NextCards]_vars

(***************************************************************************)
(* SpecAlias: event name aliases at match start.  The writer appends        *)
(* EventJoin lines with full event names, and match starts (EventType 3     *)
(* for match-1, room state for match-2) that carry compact names.           *)
(***************************************************************************)
Playing == "MatchGameRoomStateType_Playing"

KindsAlias ==
    {JoinLine("QuickDraft_FIN_20250619"), JoinLine("PremierDraft_FIN_20250610"),
     JoinLine("Sealed_FIN_20250610"), JoinLine("TradSealed_FIN_20250610"),
     JoinLine("QuickDraft_EOE_20250801"),
     StartLine("match-1", "FIN_Quick_Draft", 2, 0),
     StartLine("match-1", "FIN_Sealed", 2, 0),
     RoomLine("match-2", "FIN_Premier_Draft", Playing, <<>>, 0),
     RoomLine("match-2", "FIN_Quick_Draft", Playing, <<>>, 0)}

NextAlias ==
    \/ AppendLine(KindsAlias, 0)
    \/ StartPass(TRUE)
    \/ ReadLine
    \/ Finish

SpecAlias == Init /\ [][NextAlias]_vars

(***************************************************************************)
(* SpecResolve: the alias resolver over event runs whose names themselves   *)
(* have the compact form or match a pattern.                                *)
(***************************************************************************)
KindsResolve ==
    {JoinLine("QuickDraft_FIN_20250619"), JoinLine("QuickDraft0FIN0_Quick_Draft"),
     JoinLine("QuickDraft_QuickDraft0FIN0_1"), JoinLine("FIN_Quick_Draft"),
     StartLine("match-1", "FIN_Quick_Draft", 2, 0),
     RoomLine("match-2", "FIN_Sealed", Playing, <<>>, 0)}

NextResolve ==
    \/ AppendLine(KindsResolve, 0)
    \/ StartPass(TRUE)
    \/ ReadLine
    \/ Finish

SpecResolve == Init /\ [][NextResolve]_vars

(***************************************************************************)
(* SpecDeck: deck submissions.  The writer appends EventSetDeckV2 lines for *)
(* deck-A (two different contents, one with a zero-quantity line) and for   *)
(* deck-B.                                                                  *)
(***************************************************************************)
DeckA1 == DeckLine("deck-A", "E1", "Deck A", <<CardLine(7001, 4), CardLine(7002, 2)>>,
                   <<CardLine(7003, 1)>>, 0)

DeckA2 == DeckLine("deck-A", "E1", "Deck A", <<CardLine(7001, 3), CardLine(7002, 0)>>,
                   <<CardLine(7004, 2)>>, 0)

DeckB1 == DeckLine("deck-B", "E1", "Deck B", <<CardLine(7001, 1)>>, <<>>, 0)

KindsDeck == {DeckA1, DeckA2, DeckB1}

NextDeck ==
    \/ AppendLine(KindsDeck, 0)
    \/ StartPass(TRUE)
    \/ ReadLine
    \/ Finish

SpecDeck == Init /\ [][NextDeck]_vars

(***************************************************************************)
(* SpecResult: the result of a match end.  The log holds the start of       *)
(* match-1 and an EventType 4 line whose TeamId and WinningTeamId are any   *)
(* of -1 .. MaxTeam.                                                        *)
(***************************************************************************)
TeamIds == (-1)..MaxTeam

EndOf(teamID, winningTeamID) == EndLine("match-1", teamID, winningTeamID, "", 0)

InitResult ==
    \E teamID \in TeamIds, winningTeamID \in TeamIds :
        InitWith(LineOf(Start1) \o LineOf(EndOf(teamID, winningTeamID)))

NextResult ==
    \/ StartPass(TRUE)
    \/ StartPass(FALSE)
    \/ ReadLine
    \/ Finish

SpecResult == InitResult /\ [][NextResult]_vars

(***************************************************************************)
(* SpecCli: the command line.  main dispatches on the command; parse runs   *)
(* one pass for each log path in turn, tail runs a resume pass at every     *)
(* tick until it is cancelled.  While parse works through its paths, file,  *)
(* db.ingest and stateByLog stand for those of the path being parsed.       *)
(***************************************************************************)
Commands == {"", "parse", "tail", "serve", "bogus"}

\* os.Exit(code)
Exit(c, code, cause) == [c EXCEPT !.at = "exited", !.code = code, !.cause = cause]

\* log.Fatalf: the message is logged and the process exits with status 1
Fatalf(c, cause) == Exit(c, 1, cause)

\* main, and runParse / runTail / runServe up to the loop over the passes
mainStart(cmd, flagsOK, openOK, pathsOK, serveOK, resume, includePrev) ==
    LET c == [NoCli EXCEPT !.at = "run", !.cmd = cmd]
    IN  CASE cmd \notin {"parse", "tail", "serve"} -> Exit(c, 1, "usage")
          [] cmd = "parse" ->
                IF ~flagsOK THEN Fatalf(c, "flag")
                ELSE IF ~openOK THEN Fatalf(c, "storage")
                ELSE IF ~pathsOK THEN Fatalf(c, "paths")
                ELSE [c EXCEPT !.resume = resume,
                               !.paths = IF includePrev THEN <<"Player-prev.log", "Player.log">>
                                         ELSE <<"Player.log">>]
          [] cmd = "tail" ->
                IF ~flagsOK THEN Fatalf(c, "flag")
                ELSE IF ~openOK THEN Fatalf(c, "storage")
                ELSE IF ~pathsOK THEN Fatalf(c, "tail_start")
                ELSE [c EXCEPT !.paths = <<"Player.log">>]
          [] cmd = "serve" ->
                IF ~flagsOK THEN Fatalf(c, "flag")
                ELSE IF ~openOK THEN Fatalf(c, "storage")
                ELSE IF ~serveOK THEN Fatalf(c, "server")
                ELSE Exit(c, 0, "success")

Main ==
    /\ cli.at = "start"
    /\ \E cmd \in Commands, flagsOK, openOK, pathsOK, serveOK, resume, includePrev \in BOOLEAN :
           cli' = mainStart(cmd, flagsOK, openOK, pathsOK, serveOK, resume, includePrev)
    /\ UNCHANGED <<file, gen, db, tx, stateByLog, pc, lineNo, byteOffset, linesSinceCommit,
                   linesRead, pass, hist>>

\* runParse: ParseFile for the next path
ParsePass ==
    /\ cli.at = "run" /\ cli.cmd = "parse"
    /\ cli.paths # <<>> /\ hist.passes = cli.done
    /\ StartPass(cli.resume)

\* runParse after ParseFile has returned: an error is returned to main,
\* otherwise the loop goes to the next path or the run is complete
parseAfterPass(c, ok) ==
    IF ~ok THEN Fatalf(c, "parse")
    ELSE IF Len(c.paths) = 1 THEN Exit([c EXCEPT !.done = @ + 1, !.paths = <<>>], 0, "success")
    ELSE [c EXCEPT !.done = @ + 1, !.paths = Tail(@)]

ParseReturn ==
    /\ cli.at = "run" /\ cli.cmd = "parse"
    /\ pc = "idle" /\ hist.passes = cli.done + 1
    /\ cli' = parseAfterPass(cli, pass.ok)
    /\ IF cli'.at = "run"
       THEN /\ db' = [db EXCEPT !.ingest = EmptyDB.ingest]
            /\ tx' = db'
            /\ stateByLog' = NewParser
       ELSE UNCHANGED <<db, tx, stateByLog>>
    /\ UNCHANGED <<file, gen, pc, lineNo, byteOffset, linesSinceCommit, linesRead, pass, hist>>

\* runTail: ParseFile(ctx, activeLogPath, true)
TailPass ==
    /\ cli.at = "run" /\ cli.cmd = "tail"
    /\ hist.passes = cli.ticks
    /\ StartPass(TRUE)

\* variant: a failed pass ends the loop
tailAfterPassFatal(c, ok, cancelled) ==
    IF ~ok THEN Fatalf(c, "parse")
    ELSE IF cancelled THEN Exit(c, 0, "cancelled")
    ELSE [c EXCEPT !.ticks = @ + 1]

\* runTail after ParseFile has returned: an error is logged; then the
\* select on ctx.Done() and the ticker
tailAfterPass(c, ok, cancelled) ==
    LET c1 == IF ok THEN c ELSE [c EXCEPT !.logged = @ + 1]
    IN  IF cancelled THEN Exit(c1, 0, "cancelled") ELSE [c1 EXCEPT !.ticks = @ + 1]

TailSelect ==
    /\ cli.at = "run" /\ cli.cmd = "tail"
    /\ pc = "idle" /\ hist.passes = cli.ticks + 1
    /\ \E cancelled \in BOOLEAN : cli' = tailAfterPass(cli, pass.ok, cancelled)
    /\ UNCHANGED <<file, gen, db, tx, stateByLog, pc, lineNo, byteOffset, linesSinceCommit,
                   linesRead, pass, hist>>

InitCli ==
    /\ file = <<>>
    /\ gen = 0
    /\ db = EmptyDB
    /\ tx = EmptyDB
    /\ stateByLog = NewParser
    /\ pc = "idle"
    /\ lineNo = 0
    /\ byteOffset = 0
    /\ linesSinceCommit = 0
    /\ linesRead = 0
    /\ pass = NoPass
    /\ hist = NoHist
    /\ cli = [NoCli EXCEPT !.at = "start"]

NextCli ==
    \/ AppendLine(KindsJoin, 0)
    \/ Main
    \/ ParsePass
    \/ ParseReturn
    \/ TailPass
    \/ TailSelect
    \/ ReadLine
    \/ Finish
    \/ Fail

SpecCli == InitCli /\ [][NextCli]_vars

(***************************************************************************)
(* SpecRaw: the raw events.  The writer appends lines of every classified   *)
(* shape, and noise.                                                        *)
(***************************************************************************)
KindsRaw ==
    {JoinLine("E1"), CompleteLine("EventJoin"), RoomLine("match-1", "E1", Playing, <<>>, 0),
     GreM1, NoiseLine}

NextRaw ==
    \/ AppendLine(KindsRaw, 0)
    \/ StartPass(TRUE)
    \/ ReadLine
    \/ Finish

SpecRaw == Init /\ [][NextRaw]_vars

(***************************************************************************)
(* SpecJoin: the status of an event run.  The writer appends EventJoin and  *)
(* EventClaimPrize lines for E1 and the start of a match of E1.             *)
(***************************************************************************)
KindsRun == {JoinLine("E1"), ClaimLine("E1"), JoinLine("Traditional_Ladder"), Start1}

NextJoin ==
    \/ AppendLine(KindsRun, 0)
    \/ StartPass(TRUE)
    \/ ReadLine
    \/ Finish

SpecJoin == Init /\ [][NextJoin]_vars

(***************************************************************************)
(* SpecChoose: the result list of a final room state.  The log shows the    *)
(* persona id and then holds the MatchCompleted envelope of match-1 with    *)
(* any list of up to MaxResults result entries.                             *)
(***************************************************************************)
Completed == "MatchGameRoomStateType_MatchCompleted"

ResultEntries ==
    {ResultEntry(scope, wteam, reason) :
        scope \in {"MatchScope_Match", "MatchScope_Game"}, wteam \in 0..MaxTeam,
        reason \in {"ResultReason_Game", "ResultReason_Concede"}}

ResultLists == UNION {[1..n -> ResultEntries] : n \in 0..MaxResults}

InitChoose ==
    \E results \in ResultLists :
        InitWith(LineOf(Persona) \o LineOf(RoomLine("match-1", "E1", Completed, results, 0)))

NextChoose ==
    \/ StartPass(TRUE)
    \/ StartPass(FALSE)
    \/ ReadLine
    \/ Finish

SpecChoose == InitChoose /\ [][NextChoose]_vars

(***************************************************************************)
(* SpecPersona: learning the persona id.  The writer appends lines that     *)
(* show an id by each of the persona patterns, the id of the user and an    *)
(* id that begins with NoInstallID.                                         *)
(***************************************************************************)
PersonaPatterns == {"PersonaId", "PersonaIdEscaped", "MatchTo", "clientId"}

KindsPersona ==
    {PersonaLineBy(pidSrc, pid) : pidSrc \in PersonaPatterns, pid \in {"self-user", "NoInstallID_1"}}

NextPersona ==
    \/ AppendLine(KindsPersona, 0)
    \/ StartPass(TRUE)
    \/ ReadLine
    \/ Finish

SpecPersona == Init /\ [][NextPersona]_vars

(***************************************************************************)
(* SpecOrder: the newest of several runs that match a compact name.  The    *)
(* runs QuickDraft_FIN_20250619 and QuickDraft_FIN_20250701 come into being *)
(* by an EventJoin (no started_at) or by the start of match-1 (started_at   *)
(* from the event time); match-2 starts as FIN_Quick_Draft.  The passes run *)
(* at a wall clock time later than every event time of the log.             *)
(***************************************************************************)
\* nowUTC() when the first pass starts, on the scale of the event times
WallClock == 100

KindsOrder ==
    {JoinLine("QuickDraft_FIN_20250619"), JoinLine("QuickDraft_FIN_20250701"),
     StartLine("match-1", "QuickDraft_FIN_20250619", 2, 50),
     StartLine("match-1", "QuickDraft_FIN_20250701", 2, 60),
     StartLine("match-2", "FIN_Quick_Draft", 2, 0)}

InitOrder ==
    /\ file = <<>>
    /\ gen = 0
    /\ db = [EmptyDB EXCEPT !.clock = WallClock]
    /\ tx = db
    /\ stateByLog = NewParser
    /\ pc = "idle"
    /\ lineNo = 0
    /\ byteOffset = 0
    /\ linesSinceCommit = 0
    /\ linesRead = 0
    /\ pass = [NoPass EXCEPT !.startDb = db]
    /\ hist = NoHist
    /\ cli = NoCli

NextOrder ==
    \/ AppendLine(KindsOrder, 0)
    \/ StartPass(TRUE)
    \/ ReadLine
    \/ Finish

SpecOrder == InitOrder /\ [][NextOrder]_vars

(***************************************************************************)
(* SpecStart: the start evidence of one match.  The writer appends, for     *)
(* match-1, EventType 3 lines with and without event time, a room state     *)
(* with an earlier timestamp and game states with a later and with no       *)
(* timestamp; passes run with resume on or off.                             *)
(***************************************************************************)
KindsStart ==
    {StartLine("match-1", "E1", 2, 30000), Start1,
     RoomLine("match-1", "E1", Playing, <<>>, 20000),
     GRELine("match-1", <<2>>, 1, "Phase_Main1", Battlefield, <<>>, 40000), GreM1}

NextStart ==
    \/ AppendLine(KindsStart, 0)
    \/ StartPass(TRUE)
    \/ StartPass(FALSE)
    \/ ReadLine
    \/ Finish

SpecStart == Init /\ [][NextStart]_vars

(***************************************************************************)
(* SpecBatch: the transactions of a pass.  The log starts with one noise    *)
(* line; the writer appends EventJoin lines, noise lines and empty lines;   *)
(* passes run with resume on or off.                                        *)
(***************************************************************************)
KindsBatch == {JoinLine("E1"), NoiseLine}

InitBatch == InitWith(LineOf(NoiseLine))

NextBatch ==
    \/ AppendLine(KindsBatch, 1)
    \/ AppendBlank(1)
    \/ StartPass(TRUE)
    \/ StartPass(FALSE)
    \/ ReadLine
    \/ Finish

SpecBatch == InitBatch /\ [][NextBatch]_vars

(***************************************************************************)
(* SpecCancel: passes whose context is cancelled.  The writer appends       *)
(* EventJoin lines (a store call each) and persona lines (no store call);   *)
(* a pass may be cancelled at any line boundary.                            *)
(***************************************************************************)
KindsCancel == {JoinLine("E1"), PersonaLineBy("PersonaId", "self-user")}

NextCancel ==
    \/ AppendLine(KindsCancel, 0)
    \/ StartPass(TRUE)
    \/ ReadLine
    \/ Finish
    \/ Cancel
    \/ ReadLineCancelled
    \/ FinishCancelled

SpecCancel == Init /\ [][NextCancel]_vars

(***************************************************************************)
(* SpecPaths: several ParseFile invocations on one Parser.  Here the map    *)
(* of the Parser holds references: stateByLog.objs are the parseState       *)
(* objects made so far and stateByLog.ref maps a key to the index of its    *)
(* object; pass[i] are the locals of invocation i (its logPath and its      *)
(* state pointer).  The lines are persona lines, which make no store call.  *)
(* One path is driven by one invocation at a time.                          *)
(***************************************************************************)
LogPaths == {"Player.log", "Player.log ", "Player-prev.log", " "}

Runs == 1..MaxRuns

NoRun == [at |-> "off", logPath |-> "", state |-> 0]

\* Parser.stateForLog on a map of references: the map after the call and the
\* pointer returned
stateForLogRef(byLog, logPath, reset) ==
    LET key == TrimSpace(logPath)
        fresh == Len(byLog.objs) + 1
        made == Append(byLog.objs, EmptyState)
    IN  IF key = "" THEN [byLog |-> [byLog EXCEPT !.objs = made], state |-> fresh]
        ELSE IF reset \/ ~Has(byLog.ref, key)
        THEN [byLog |-> [objs |-> made, ref |-> Put(byLog.ref, key, fresh)], state |-> fresh]
        ELSE [byLog |-> byLog, state |-> byLog.ref[key]]

\* ParseFile up to "state := p.stateForLog(logPath, resetState)"
CallParseFile(i, logPath, resetState) ==
    /\ pass[i].at = "off"
    /\ \A j \in Runs : pass[j].at = "off" \/ pass[j].logPath # logPath
    /\ Len(stateByLog.objs) < MaxObjs
    /\ LET r == stateForLogRef(stateByLog, logPath, resetState)
       IN  /\ stateByLog' = r.byLog
           /\ pass' = [pass EXCEPT ![i] = [at |-> "reading", logPath |-> logPath,
                                           state |-> r.state]]
    /\ UNCHANGED <<cli, file, gen, db, tx, pc, lineNo, byteOffset, linesSinceCommit,
                   linesRead, hist>>

\* one line of the log of invocation i goes through processLine, which
\* works on the object the invocation holds
LineOfRun(i, p) ==
    /\ pass[i].at = "reading"
    /\ LET r == processLine(stateByLog.objs[pass[i].state], tx, <<H(p), T>>, 1, 0)
       IN  /\ stateByLog' = [stateByLog EXCEPT !.objs[pass[i].state] = r.s]
           /\ tx' = r.d
    /\ UNCHANGED <<cli, file, gen, db, pc, lineNo, byteOffset, linesSinceCommit,
                   linesRead, pass, hist>>

\* the invocation returns
ReturnParseFile(i) ==
    /\ pass[i].at = "reading"
    /\ pass' = [pass EXCEPT ![i] = NoRun]
    /\ UNCHANGED <<cli, file, gen, db, tx, stateByLog, pc, lineNo, byteOffset,
                   linesSinceCommit, linesRead, hist>>

KindsPaths == {PersonaLineBy("PersonaId", "self-user"), PersonaLineBy("PersonaId", "other-user")}

InitPaths ==
    /\ file = <<>>
    /\ gen = 0
    /\ db = EmptyDB
    /\ tx = EmptyDB
    /\ stateByLog = [objs |-> <<>>, ref |-> EmptyMap]
    /\ pc = "idle"
    /\ lineNo = 0
    /\ byteOffset = 0
    /\ linesSinceCommit = 0
    /\ linesRead = 0
    /\ pass = [i \in Runs |-> NoRun]
    /\ hist = NoHist
    /\ cli = NoCli

NextPaths ==
    \/ \E i \in Runs, logPath \in LogPaths, resetState \in BOOLEAN :
          CallParseFile(i, logPath, resetState)
    \/ \E i \in Runs, p \in KindsPaths : LineOfRun(i, p)
    \/ \E i \in Runs : ReturnParseFile(i)

SpecPaths == InitPaths /\ [][NextPaths]_vars

(***************************************************************************)
(* SpecClassify: lines that match more than one shape, or none.  The writer *)
(* appends an outgoing line and a completion line whose text holds both     *)
(* tokens, a line that begins with { and holds both tokens (a room state    *)
(* and a game state of match-1 in one envelope), a game-state line, the     *)
(* envelope behind a text that does not begin with {, and a line that       *)
(* begins with { and holds no token.                                        *)
(***************************************************************************)
BothTokens == {RoomToken, GREToken}

OutgoingBoth == [JoinLine("E1") EXCEPT !.tokens = BothTokens, !.m = "match-1"]

CompleteBoth == [CompleteLine("EventJoin") EXCEPT !.tokens = BothTokens, !.m = "match-1"]

BraceBoth ==
    [RoomLine("match-1", "E1", Playing, <<>>, 0) EXCEPT
        !.tokens = BothTokens, !.seats = <<2>>, !.hasTurn = TRUE, !.turn = 3,
        !.phase = "Phase_Combat", !.zones = Battlefield]

GreTurn1 == GRELine("match-1", <<2>>, 1, "Phase_Main1", Battlefield, <<>>, 0)

NoBraceBoth == [BraceBoth EXCEPT !.head = ""]

BraceOnly == [Base EXCEPT !.head = "{"]

KindsClassify == {OutgoingBoth, CompleteBoth, BraceBoth, GreTurn1, NoBraceBoth, BraceOnly}

NextClassify ==
    \/ AppendLine(KindsClassify, 0)
    \/ StartPass(TRUE)
    \/ ReadLine
    \/ Finish

SpecClassify == Init /\ [][NextClassify]_vars

(***************************************************************************)
(* SpecObjects: the game objects of a game-state message.  The writer       *)
(* appends game states of match-1 that list a card of the opponent on the   *)
(* battlefield (101), a token (102), a private card (103), an ability       *)
(* (104), a card of the opponent in hand (105), a card of the user on the   *)
(* battlefield (106), an object without grpId (107) and a card in zone 27   *)
(* that no zone list names (108); with and without systemSeatIds; and a     *)
(* game state that names zone 28 a hand.                                    *)
(***************************************************************************)
ZonesSeen == <<Zone(28, "ZoneType_Battlefield"), Zone(31, "ZoneType_Hand")>>

ObjectsSeen ==
    <<CardObj(101, 5001, 28, 1),
      [CardObj(102, 5002, 28, 1) EXCEPT !.isToken = TRUE],
      [CardObj(103, 5003, 28, 1) EXCEPT !.visibility = "Visibility_Private"],
      [CardObj(104, 5004, 28, 1) EXCEPT !.type = "GameObjectType_Ability"],
      CardObj(105, 5005, 31, 1),
      CardObj(106, 5006, 28, 2),
      CardObj(107, 0, 28, 1),
      CardObj(108, 5008, 27, 1)>>

GreNoSeat == GRELine("match-1", <<>>, 1, "Phase_Main1", ZonesSeen, ObjectsSeen, 0)

GreSeat2 == GRELine("match-1", <<2>>, 1, "Phase_Main1", ZonesSeen, ObjectsSeen, 0)

GreZone28Hand ==
    GRELine("match-1", <<>>, 1, "Phase_Main1", <<Zone(28, "ZoneType_Hand")>>,
            <<CardObj(109, 5009, 28, 1), CardObj(101, 5001, 28, 1)>>, 0)

KindsObjects == {GreNoSeat, GreSeat2, GreZone28Hand}

NextObjects ==
    \/ AppendLine(KindsObjects, 0)
    \/ StartPass(TRUE)
    \/ ReadLine
    \/ Finish

SpecObjects == Init /\ [][NextObjects]_vars

(***************************************************************************)
(* SpecOpponent: the opponent of a room-state envelope.  The log starts     *)
(* with the persona line of self-user; the writer appends room states of    *)
(* match-1 whose player lists are: opponent and user, in both orders; the   *)
(* list without the user; a reservedPlayers list beside another players     *)
(* list; and a list of a player without name, the user and a named player.  *)
(***************************************************************************)
Self2 == Player("self-user", "Self", 2, 2, "E1")

RoomOf(reserved, players) ==
    [RoomLine("match-1", "E1", Playing, <<>>, 0) EXCEPT !.reserved = reserved, !.players = players]

RoomOppFirst == RoomOf(<<Player("opp-user", "Opp", 1, 1, "E1"), Self2>>, <<>>)

RoomSelfFirst == RoomOf(<<>>, <<Self2, Player("opp-user", "Opp", 1, 1, "E1")>>)

RoomNoSelf == RoomOf(<<Player("opp-user", "Opp", 1, 1, "E1"), Player("third-user", "Third", 2, 2, "E1")>>, <<>>)

RoomBothLists ==
    RoomOf(<<Player("opp-user", "", 1, 1, "E1"), Self2>>,
           <<Player("third-user", "Third", 1, 1, "E1"), Self2>>)

RoomNameless ==
    RoomOf(<<Player("nameless-user", "", 1, 1, "E1"), Self2, Player("third-user", "Third", 3, 1, "E1")>>,
           <<>>)

KindsOpponent == {RoomOppFirst, RoomSelfFirst, RoomNoSelf, RoomBothLists, RoomNameless}

NextOpponent ==
    \/ AppendLine(KindsOpponent, NumLines(PersonaShown))
    \/ StartPass(TRUE)
    \/ ReadLine
    \/ Finish

SpecOpponent == InitMatch /\ [][NextOpponent]_vars

(***************************************************************************)
(* SpecDraft: bot-draft picks, human-draft picks and draft completions of   *)
(* two events in any order.                                                 *)
(***************************************************************************)
KindsDraft ==
    {BotPickLine("E1", 1, 1, <<"101", "x">>), BotPickLine("E1", 1, 2, <<"102">>),
     BotPickLine("E2", 1, 1, <<"101">>),
     DraftCompleteLine("E1", TRUE), DraftCompleteLine("E1", FALSE),
     PlayerPickLine("draft-1", 1, 1, <<101>>)}

NextDraft ==
    \/ AppendLine(KindsDraft, 0)
    \/ StartPass(TRUE)
    \/ ReadLine
    \/ Finish

SpecDraft == Init /\ [][NextDraft]_vars

(***************************************************************************)
(* SpecLink: the links of match-1 to the decks of its event.  The log       *)
(* starts with the submission of deck A and the start of the match; deck    *)
(* submissions, starts of the match and its room state follow in any order. *)
(***************************************************************************)
RoomPlaying == RoomLine("match-1", "E1", Playing, <<>>, 0)

KindsLink == {DeckA1, DeckB1, Start1, RoomPlaying}

InitLink == InitWith(LineOf(DeckA1) \o LineOf(Start1))

NextLink ==
    \/ AppendLine(KindsLink, NumLines(LineOf(DeckA1) \o LineOf(Start1)))
    \/ StartPass(TRUE)
    \/ ReadLine
    \/ Finish

SpecLink == InitLink /\ [][NextLink]_vars

(***************************************************************************)
(* SpecOutgoing: outgoing lines whose envelope is not JSON, whose method is *)
(* not one the parser reads, or whose request holds no object, among        *)
(* EventJoin lines.                                                         *)
(***************************************************************************)
KindsOutgoing ==
    {UnparsedLine("EventJoin"), UnparsedLine("GraphGetGraphState"),
     OutgoingAs("GraphGetGraphState", "E1", "quoted"),
     OutgoingAs("GraphGetGraphState", "E1", "absent"),
     OutgoingAs("EventJoin", "E1", "object"),
     OutgoingAs("EventJoin", "E1", "quoted_text"),
     JoinLine("E1")}

NextOutgoing ==
    \/ AppendLine(KindsOutgoing, 0)
    \/ StartPass(TRUE)
    \/ ReadLine
    \/ Finish

SpecOutgoing == Init /\ [][NextOutgoing]_vars

(***************************************************************************)
(* SpecMigrate: db.Init (internal/db/db.go) on databases of every age.      *)
(* Here db is the committed catalog of the database, tx the catalog inside  *)
(* the open migration transaction, pc the position in Init and pass its     *)
(* locals.  A catalog holds the two observation tables (columns and rows)   *)
(* and the indexes by name; a row of a table without the game_number column *)
(* carries game_number 0.                                                   *)
(***************************************************************************)
PlaysTable == "match_card_plays"

OppTable == "match_opponent_card_instances"

Without(f, k) == [x \in DOMAIN f \ {k} |-> f[x]]

\* the columns of the two tables the model keeps: without game_number as the
\* databases written before the column was added have them, and with it
OldColumns == {"id", "match_id", "instance_id", "card_id"}

NewColumns == OldColumns \cup {"game_number"}

Row(id, instanceID, cardID, gameNumber) ==
    [id |-> id, match_id |-> 1, instance_id |-> instanceID, card_id |-> cardID,
     game_number |-> gameNumber]

\* the steps of the two rebuilds, in order
rebuildMatchCardPlaysTable ==
    << [op |-> "rename", table |-> PlaysTable, to |-> "match_card_plays_old"],
       [op |-> "drop_index", table |-> "idx_match_card_plays_match_id", to |-> ""],
       [op |-> "drop_index", table |-> "idx_match_card_plays_card_id", to |-> ""],
       [op |-> "drop_index", table |-> "idx_match_card_plays_turn_order", to |-> ""],
       [op |-> "create_table", table |-> PlaysTable, to |-> ""],
       [op |-> "copy", table |-> "match_card_plays_old", to |-> PlaysTable],
       [op |-> "create_index", table |-> "idx_match_card_plays_match_id", to |-> PlaysTable],
       [op |-> "create_index", table |-> "idx_match_card_plays_card_id", to |-> PlaysTable],
       [op |-> "create_index", table |-> "idx_match_card_plays_turn_order", to |-> PlaysTable],
       [op |-> "drop_table", table |-> "match_card_plays_old", to |-> ""] >>

rebuildMatchOpponentCardInstancesTable ==
    << [op |-> "rename", table |-> OppTable, to |-> "match_opponent_card_instances_old"],
       [op |-> "drop_index", table |-> "idx_match_opponent_cards_match_id", to |-> ""],
       [op |-> "drop_index", table |-> "idx_match_opponent_cards_card_id", to |-> ""],
       [op |-> "create_table", table |-> OppTable, to |-> ""],
       [op |-> "copy", table |-> "match_opponent_card_instances_old", to |-> OppTable],
       [op |-> "create_index", table |-> "idx_match_opponent_cards_match_id", to |-> OppTable],
       [op |-> "create_index", table |-> "idx_match_opponent_cards_card_id", to |-> OppTable],
       [op |-> "drop_table", table |-> "match_opponent_card_instances_old", to |-> ""] >>

StepsOf(table) ==
    IF table = PlaysTable THEN rebuildMatchCardPlaysTable
    ELSE rebuildMatchOpponentCardInstancesTable

\* UNIQUE(match_id, game_number, instance_id) and the primary key
UniqueRows(rows) ==
    \A r1, r2 \in rows :
        (r1.id = r2.id
           \/ (/\ r1.match_id = r2.match_id
               /\ r1.game_number = r2.game_number
               /\ r1.instance_id = r2.instance_id)) => r1 = r2

\* INSERT INTO .. (id, match_id, game_number, ..) SELECT id, match_id, 1, ..
CopiedRows(rows) == {[r EXCEPT !.game_number = 1] : r \in rows}

\* tx.ExecContext(ctx, step) on catalog c: whether SQLite accepts the step
StepOK(c, st) ==
    CASE st.op = "rename" -> Has(c.tables, st.table) /\ ~Has(c.tables, st.to)
      [] st.op = "create_table" -> ~Has(c.tables, st.table)
      [] st.op = "copy" -> /\ Has(c.tables, st.table) /\ Has(c.tables, st.to)
                           /\ UniqueRows(c.tables[st.to].rows
                                           \cup CopiedRows(c.tables[st.table].rows))
      [] st.op = "create_index" -> ~Has(c.indexes, st.table) /\ Has(c.tables, st.to)
      [] st.op = "drop_table" -> Has(c.tables, st.table)
      [] OTHER -> TRUE

\* the catalog after the step
ExecStep(c, st) ==
    CASE st.op = "rename" ->
            [c EXCEPT !.tables = Put(Without(@, st.table), st.to, @[st.table]),
                      !.indexes = [n \in DOMAIN @ |-> IF @[n] = st.table THEN st.to ELSE @[n]]]
      [] st.op = "drop_index" -> [c EXCEPT !.indexes = Without(@, st.table)]
      [] st.op = "create_table" ->
            [c EXCEPT !.tables = Put(@, st.table, [cols |-> NewColumns, rows |-> {}])]
      [] st.op = "copy" ->
            [c EXCEPT !.tables[st.to].rows = @ \cup CopiedRows(c.tables[st.table].rows)]
      [] st.op = "create_index" -> [c EXCEPT !.indexes = Put(@, st.table, st.to)]
      [] OTHER ->
            [c EXCEPT !.tables = Without(@, st.table),
                      !.indexes = [n \in {x \in DOMAIN @ : @[x] # st.table} |-> @[n]]]

\* variant: the column is never found
tableHasColumnNever(c, tableName, columnName) == FALSE

\* PRAGMA table_info(tableName) lists the column (the names of the model do
\* not differ in case or blanks)
tableHasColumn(c, tableName, columnName) ==
    Has(c.tables, tableName) /\ columnName \in c.tables[tableName].cols

\* db.ExecContext(ctx, schema): CREATE TABLE IF NOT EXISTS and CREATE INDEX
\* IF NOT EXISTS of the two observation tables
applySchema(c) ==
    LET made(t) == IF Has(c.tables, t) THEN c.tables[t]
                   ELSE [cols |-> NewColumns, rows |-> {}]
        idx == [n \in {st.table : st \in {StepsOf(PlaysTable)[i] : i \in 7..9}
                                           \cup {StepsOf(OppTable)[i] : i \in 6..7}}
                  |-> IF n \in {StepsOf(PlaysTable)[i].table : i \in 7..9}
                      THEN PlaysTable ELSE OppTable]
    IN  [tables |-> [t \in DOMAIN c.tables \cup {PlaysTable, OppTable} |-> made(t)],
         indexes |-> [n \in DOMAIN c.indexes \cup DOMAIN idx |->
                        IF Has(c.indexes, n) THEN c.indexes[n] ELSE idx[n]]]

\* Init: the schema is applied, then migrateMatchObservationTables starts
\* with match_card_plays
CallInit ==
    /\ pc \in {"idle", "returned"}
    /\ pass.inits < MaxInits
    /\ db' = applySchema(db)
    /\ tx' = db'
    /\ pass' = [inits |-> pass.inits + 1, start |-> db, table |-> PlaysTable, step |-> 0,
                err |-> FALSE, rebuilt |-> {}, total |-> pass.total]
    /\ pc' = "inspect"
    /\ UNCHANGED <<file, gen, stateByLog, lineNo, byteOffset, linesSinceCommit,
                   linesRead, hist, cli>>

\* migrateMatchObservationTables goes on after a table: the second table, or
\* the return of Init
afterTable(rebuilt) ==
    /\ pass' = [pass EXCEPT !.table = OppTable, !.step = 0, !.rebuilt = rebuilt,
                            !.total = @ + Cardinality(rebuilt \ pass.rebuilt)]
    /\ pc' = IF pass.table = PlaysTable THEN "inspect" ELSE "returned"

\* tableHasColumn(.., "game_number"): the table is left alone, or its rebuild
\* begins a transaction
Inspect ==
    /\ pc = "inspect"
    /\ IF tableHasColumn(db, pass.table, "game_number")
       THEN afterTable(pass.rebuilt) /\ tx' = tx
       ELSE /\ pc' = "rebuild"
            /\ pass' = [pass EXCEPT !.step = 1]
            /\ tx' = db
    /\ UNCHANGED <<file, gen, db, stateByLog, lineNo, byteOffset, linesSinceCommit,
                   linesRead, hist, cli>>

\* one step of the rebuild, inside the transaction
RebuildStep ==
    /\ pc = "rebuild"
    /\ pass.step <= Len(StepsOf(pass.table))
    /\ StepOK(tx, StepsOf(pass.table)[pass.step])
    /\ tx' = ExecStep(tx, StepsOf(pass.table)[pass.step])
    /\ pass' = [pass EXCEPT !.step = @ + 1]
    /\ UNCHANGED <<file, gen, db, stateByLog, pc, lineNo, byteOffset, linesSinceCommit,
                   linesRead, hist, cli>>

\* a step or the commit returns an error: the deferred tx.Rollback() runs
\* and Init returns the error
RebuildFails ==
    /\ pc = "rebuild"
    /\ tx' = db
    /\ pass' = [pass EXCEPT !.err = TRUE]
    /\ pc' = "returned"
    /\ UNCHANGED <<file, gen, db, stateByLog, lineNo, byteOffset, linesSinceCommit,
                   linesRead, hist, cli>>

\* tx.Commit() after the last step
RebuildCommit ==
    /\ pc = "rebuild"
    /\ pass.step = Len(StepsOf(pass.table)) + 1
    /\ db' = tx
    /\ tx' = tx
    /\ afterTable(pass.rebuilt \cup {pass.table})
    /\ UNCHANGED <<file, gen, stateByLog, lineNo, byteOffset, linesSinceCommit,
                   linesRead, hist, cli>>

\* the rows a database may hold when Init is called
OldRows == {Row(1, 101, 7001, 0), Row(2, 102, 7002, 0)}

NewRows == {Row(1, 101, 7001, 1), Row(3, 101, 7001, 2)}

\* a table as a database of some age holds it: with or without game_number
TablesOfAge ==
    {[cols |-> OldColumns, rows |-> rs] : rs \in SUBSET OldRows}
      \cup {[cols |-> NewColumns, rows |-> rs] : rs \in SUBSET NewRows}

\* the indexes a database may hold when Init is called
IndexesOfAge ==
    {applySchema([tables |-> EmptyMap, indexes |-> EmptyMap]).indexes,
     Without(applySchema([tables |-> EmptyMap, indexes |-> EmptyMap]).indexes,
             "idx_match_card_plays_turn_order")}

InitMigrate ==
    /\ file = <<>>
    /\ gen = 0
    /\ db \in {[tables |-> EmptyMap, indexes |-> EmptyMap]}
                \cup {[tables |-> [t \in {PlaysTable, OppTable} |->
                                     IF t = PlaysTable THEN pt ELSE ot],
                        indexes |-> ix] :
                         pt \in TablesOfAge, ot \in TablesOfAge, ix \in IndexesOfAge}
    /\ tx = db
    /\ stateByLog = NewParser
    /\ pc = "idle"
    /\ lineNo = 0
    /\ byteOffset = 0
    /\ linesSinceCommit = 0
    /\ linesRead = 0
    /\ pass = [inits |-> 0, start |-> db, table |-> PlaysTable, step |-> 0,
               err |-> FALSE, rebuilt |-> {}, total |-> 0]
    /\ hist = NoHist
    /\ cli = NoCli

NextMigrate ==
    \/ CallInit
    \/ Inspect
    \/ RebuildStep
    \/ RebuildFails
    \/ RebuildCommit

SpecMigrate == InitMigrate /\ [][NextMigrate]_vars

(***************************************************************************)
(* SpecTimestamp: parseRoomTimestamp on the text of a timestamp.  The       *)
(* handlers above use the function on the scaled epoch; here the text is a  *)
(* sequence of characters and a number is kept as the pair of its quotient  *)
(* and remainder by 10^6, which holds every value below 10^14 exactly.      *)
(* pass holds the text and the result; an instant is the whole seconds      *)
(* since the epoch (again as quotient and remainder by 10^6) and the        *)
(* milliseconds within the second, which fix the RFC 3339 text of the UTC   *)
(* time one to one.                                                         *)
(***************************************************************************)
DigitValue ==
    [c \in {"0", "1", "2", "3", "4", "5", "6", "7", "8", "9"} |->
        CASE c = "0" -> 0 [] c = "1" -> 1 [] c = "2" -> 2 [] c = "3" -> 3 [] c = "4" -> 4
          [] c = "5" -> 5 [] c = "6" -> 6 [] c = "7" -> 7 [] c = "8" -> 8 [] OTHER -> 9]

\* strings.TrimSpace on a sequence of characters
RECURSIVE TrimChars(_)
TrimChars(raw) ==
    IF raw = <<>> THEN raw
    ELSE IF raw[1] = " " THEN TrimChars(Tail(raw))
    ELSE IF raw[Len(raw)] = " " THEN TrimChars(SubSeq(raw, 1, Len(raw) - 1))
    ELSE raw

\* the value of a digit sequence, read from the left; big: the value is
\* 10^14 or more
RECURSIVE DecimalValue(_, _)
DecimalValue(digits, acc) ==
    IF digits = <<>> THEN acc
    ELSE LET low == acc.b * 10 + DigitValue[digits[1]]
             next == IF acc.big \/ acc.a >= 100 * 1000 * 1000
                     THEN [acc EXCEPT !.big = TRUE]
                     ELSE [acc EXCEPT !.a = acc.a * 10 + low \div (1000 * 1000),
                                      !.b = low % (1000 * 1000)]
         IN  DecimalValue(Tail(digits), next)

\* strconv.ParseInt(raw, 10, 64): an optional sign and one or more digits;
\* a value beyond 64 bits is an error, which the model reports as big
ParseInt(chars) ==
    LET signed == chars # <<>> /\ chars[1] \in {"+", "-"}
        body == IF signed THEN Tail(chars) ELSE chars
        v == DecimalValue(body, [a |-> 0, b |-> 0, big |-> FALSE])
    IN  IF body = <<>> \/ \E i \in 1..Len(body) : body[i] \notin DOMAIN DigitValue
        THEN [err |-> TRUE, neg |-> FALSE, a |-> 0, b |-> 0, big |-> FALSE]
        ELSE [err |-> FALSE, neg |-> signed /\ chars[1] = "-", a |-> v.a, b |-> v.b,
              big |-> v.big]

\* the result "" of parseRoomTimestamp
NoTime == [set |-> FALSE, sec_hi |-> 0, sec_lo |-> 0, ms |-> 0]

\* time.UnixMilli(v)
UnixMilli(v) ==
    [set |-> TRUE, sec_hi |-> v.a \div 1000,
     sec_lo |-> (v.a % 1000) * 1000 + v.b \div 1000, ms |-> v.b % 1000]

\* time.Unix(v, 0)
Unix(v) == [set |-> TRUE, sec_hi |-> v.a, sec_lo |-> v.b, ms |-> 0]

\* variant: values of eleven digits are seconds too
parseRoomTimestampTextWide(raw) ==
    LET t == TrimChars(raw)
        v == ParseInt(t)
    IN  IF t = <<>> \/ v.err \/ v.neg \/ v.big THEN NoTime
        ELSE IF v.a >= 1000 * 1000 /\ v.a < 10 * 1000 * 1000 THEN UnixMilli(v)
        ELSE IF v.a >= 1000 /\ v.a < 100 * 1000 THEN Unix(v)
        ELSE NoTime

\* parseRoomTimestamp on the text: v >= 10^12 /\ v < 10^13 is
\* 10^6 <= v.a < 10^7, and v >= 10^9 /\ v < 10^10 is 10^3 <= v.a < 10^4
parseRoomTimestampText(raw) ==
    LET t == TrimChars(raw)
        v == ParseInt(t)
    IN  IF t = <<>> \/ v.err \/ v.neg \/ v.big THEN NoTime
        ELSE IF v.a >= 1000 * 1000 /\ v.a < 10 * 1000 * 1000 THEN UnixMilli(v)
        ELSE IF v.a >= 1000 /\ v.a < 10 * 1000 THEN Unix(v)
        ELSE NoTime

\* the texts of the model: a sign or none, a first digit, a run of one
\* digit, blanks around or none
DigitRuns ==
    {sign \o <<first>> \o [i \in 1..n |-> fill] :
        sign \in {<<>>, <<"+">>, <<"-">>}, first \in {"0", "1", "9"},
        fill \in {"0", "7"}, n \in 0..(MaxDigits - 1)}

Millis273 == <<"1", "7", "7", "2", "3", "3", "0", "7", "8", "2", "2", "7", "3">>

Seconds782 == <<"1", "7", "7", "2", "3", "3", "0", "7", "8", "2">>

TimestampTexts ==
    DigitRuns \cup {<<" ">> \o d \o <<" ">> : d \in DigitRuns}
      \cup {Millis273, Seconds782, <<"0", "0">> \o Seconds782,
            <<"1", "2", "3", "4", "5">>, <<>>, <<" ">>, <<"x">>,
            <<"1", "2", "a">>, Seconds782 \o <<".", "5">>, <<"1", "e", "1", "2">>,
            <<"1", " ", "2">>, <<"+">>}

InitTimestamp ==
    /\ file = <<>>
    /\ gen = 0
    /\ db = EmptyDB
    /\ tx = EmptyDB
    /\ stateByLog = NewParser
    /\ pc = "idle"
    /\ lineNo = 0
    /\ byteOffset = 0
    /\ linesSinceCommit = 0
    /\ linesRead = 0
    /\ pass \in {[raw |-> raw, out |-> NoTime] : raw \in TimestampTexts}
    /\ hist = NoHist
    /\ cli = NoCli

CallParseRoomTimestamp ==
    /\ pc = "idle"
    /\ pass' = [pass EXCEPT !.out = parseRoomTimestampText(pass.raw)]
    /\ pc' = "returned"
    /\ UNCHANGED <<file, gen, db, tx, stateByLog, lineNo, byteOffset, linesSinceCommit,
                   linesRead, hist, cli>>

NextTimestamp == CallParseRoomTimestamp

SpecTimestamp == InitTimestamp /\ [][NextTimestamp]_vars

(***************************************************************************)
(* SpecConn: ParseFile passes on two different paths running side by side   *)
(* over one store.  Open limits the pool to MaxOpenConns connections; a     *)
(* call through s.db takes a connection from the pool and waits while none  *)
(* is free, a call through a *sql.Tx uses the connection the transaction    *)
(* took when it began and gives it back on Commit or Rollback.  Here db is  *)
(* [conns, ingest, events], tx and pass are functions of the path, and a    *)
(* file is the number of its lines, each of which makes processLine write   *)
(* one raw event.  The position of a pass is the store call it makes next.  *)
(***************************************************************************)
ConnPaths == {"A.log", "B.log"}

MaxOpenConns == 1

NoTx == [open |-> FALSE, events |-> 0, saved |-> -1]

NoIngestState == [Found |-> FALSE, LineNo |-> 0]

\* the mutant: SaveIngestState goes to the pool instead of the transaction
usesPoolAlsoToSave(call) == call \in {"BeginTx", "GetIngestState", "SaveIngestState"}

\* store.go: BeginTx and GetIngestState go through s.db, every other call
\* ParseFile and processLine make is handed the transaction
usesPool(call) == call \in {"BeginTx", "GetIngestState"}

\* the pool has a connection to give
ConnFree == Cardinality(db.conns) < MaxOpenConns

\* the call the pass makes next can go ahead
CanCall(p, call) ==
    IF usesPool(call) THEN ConnFree ELSE tx[p].open

StoreCallPoints == {"GetIngestState", "BeginTx", "SaveIngestState"}

Returned == {"done", "failed"}

InitConn ==
    /\ file \in [ConnPaths -> (MaxLines - 1) .. MaxLines]
    /\ gen = 0
    /\ db = [conns |-> {},
             ingest |-> [p \in ConnPaths |-> NoIngestState],
             events |-> [p \in ConnPaths |-> 0]]
    /\ tx = [p \in ConnPaths |-> NoTx]
    /\ stateByLog = NewParser
    /\ pc = "serving"
    /\ lineNo = 0
    /\ byteOffset = 0
    /\ linesSinceCommit = 0
    /\ linesRead = 0
    /\ pass = [p \in ConnPaths |->
                 [pc |-> "idle", resume |-> FALSE, runs |-> 0, lineNo |-> 0,
                  linesSinceCommit |-> 0, final |-> FALSE]]
    /\ hist = NoHist
    /\ cli = NoCli

ConnUnchanged ==
    UNCHANGED <<file, gen, stateByLog, pc, lineNo, byteOffset, linesSinceCommit,
                linesRead, hist, cli>>

\* ParseFile is called: the locals start at zero, a resuming pass asks for
\* the ingest state first
PassParseFile(p) ==
    /\ pass[p].pc \in {"idle"} \cup Returned
    /\ pass[p].runs < MaxPasses
    /\ \E resume \in BOOLEAN :
          pass' = [pass EXCEPT ![p] =
                     [pc |-> IF resume THEN "GetIngestState" ELSE "BeginTx",
                      resume |-> resume, runs |-> @.runs + 1, lineNo |-> 0,
                      linesSinceCommit |-> 0, final |-> FALSE]]
    /\ UNCHANGED <<db, tx>>
    /\ ConnUnchanged

\* GetIngestState: QueryRowContext takes a connection from the pool
QueryIngestState(p) ==
    /\ pass[p].pc = "GetIngestState"
    /\ CanCall(p, "GetIngestState")
    /\ db' = [db EXCEPT !.conns = @ \cup {p}]
    /\ pass' = [pass EXCEPT ![p].pc = "Scan"]
    /\ UNCHANGED tx
    /\ ConnUnchanged

\* ... and Scan gives it back; the state found sets the starting line
ScanIngestState(p) ==
    /\ pass[p].pc = "Scan"
    /\ db' = [db EXCEPT !.conns = @ \ {p}]
    /\ pass' = [pass EXCEPT ![p].pc = "BeginTx",
                            ![p].lineNo = IF db.ingest[p].Found
                                          THEN db.ingest[p].LineNo ELSE 0]
    /\ UNCHANGED tx
    /\ ConnUnchanged

\* BeginTx, before the loop and after the Commit of a full batch
PassBeginTx(p) ==
    /\ pass[p].pc = "BeginTx"
    /\ CanCall(p, "BeginTx")
    /\ db' = [db EXCEPT !.conns = @ \cup {p}]
    /\ tx' = [tx EXCEPT ![p] = [open |-> TRUE, events |-> 0, saved |-> -1]]
    /\ pass' = [pass EXCEPT ![p].pc = "ReadString", ![p].linesSinceCommit = 0]
    /\ ConnUnchanged

\* one turn of the loop: a line is read and processed through the
\* transaction, a full batch goes to commit; at the end of the file the loop
\* is left for the final save
ReadAndProcess(p) ==
    /\ pass[p].pc = "ReadString"
    /\ IF pass[p].lineNo >= file[p]
       THEN /\ pass' = [pass EXCEPT ![p].pc = "SaveIngestState", ![p].final = TRUE]
            /\ UNCHANGED tx
       ELSE /\ CanCall(p, "InsertRawEvent")
            /\ tx' = [tx EXCEPT ![p].events = @ + 1]
            /\ pass' = [pass EXCEPT
                  ![p].lineNo = @ + 1,
                  ![p].linesSinceCommit = @ + 1,
                  ![p].pc = IF pass[p].linesSinceCommit + 1 >= batchSize
                            THEN "SaveIngestState" ELSE "ReadString"]
    /\ UNCHANGED db
    /\ ConnUnchanged

\* processLine returns an error: ParseFile returns it and the deferred
\* Rollback ends the transaction
ProcessLineFails(p) ==
    /\ pass[p].pc = "ReadString"
    /\ pass[p].lineNo < file[p]
    /\ db' = [db EXCEPT !.conns = @ \ {p}]
    /\ tx' = [tx EXCEPT ![p] = NoTx]
    /\ pass' = [pass EXCEPT ![p].pc = "failed", ![p].lineNo = @ + 1,
                            ![p].linesSinceCommit = @ + 1]
    /\ ConnUnchanged

\* SaveIngestState, in the commit closure and after the loop
PassSaveIngestState(p) ==
    /\ pass[p].pc = "SaveIngestState"
    /\ CanCall(p, "SaveIngestState")
    /\ tx' = [tx EXCEPT ![p].saved = pass[p].lineNo]
    /\ pass' = [pass EXCEPT ![p].pc = "Commit"]
    /\ UNCHANGED db
    /\ ConnUnchanged

\* tx.Commit: what the transaction wrote is in the database and the
\* connection is back in the pool; the closure begins the next transaction,
\* the final commit ends the pass
PassCommit(p) ==
    /\ pass[p].pc = "Commit"
    /\ tx[p].open
    /\ db' = [db EXCEPT !.conns = @ \ {p},
                        !.ingest[p] = [Found |-> TRUE, LineNo |-> tx[p].saved],
                        !.events[p] = @ + tx[p].events]
    /\ tx' = [tx EXCEPT ![p] = NoTx]
    /\ pass' = [pass EXCEPT ![p].pc = IF pass[p].final THEN "done" ELSE "BeginTx"]
    /\ ConnUnchanged

\* the steps of a pass that take a connection from the pool
Acquire(p) == QueryIngestState(p) \/ PassBeginTx(p)

\* the steps of a pass that need nothing from the pool
Proceed(p) ==
    \/ ScanIngestState(p)
    \/ ReadAndProcess(p)
    \/ ProcessLineFails(p)
    \/ PassSaveIngestState(p)
    \/ PassCommit(p)

NextConn ==
    \E p \in ConnPaths : PassParseFile(p) \/ Acquire(p) \/ Proceed(p)

SpecConn == InitConn /\ [][NextConn]_vars

\* a goroutine that can run does run, and the pool hands a connection that
\* comes back to a request that waits for one
FairConn ==
    \A p \in ConnPaths : WF_vars(Proceed(p)) /\ SF_vars(Acquire(p))

SpecConnFair == SpecConn /\ FairConn

(***************************************************************************)
(* SpecRuns: the event runs behind the matches.  Joins, prize claims, match *)
(* starts by both kinds of evidence and match ends of event E1 and of the   *)
(* quick draft, whose join is also seen with a blank after the event name.  *)
(***************************************************************************)
KindsRuns ==
    {JoinLine("E1"), ClaimLine("E1"), Start1, EndWin, RoomPlaying,
     JoinLine("QuickDraft_FIN_20250619"), JoinLine("QuickDraft_FIN_20250619 "),
     StartLine("match-2", "FIN_Quick_Draft", 2, 0), StartLine("match-2", "", 2, 0)}

NextRuns ==
    \/ AppendLine(KindsRuns, 0)
    \/ StartPass(TRUE)
    \/ ReadLine
    \/ Finish

SpecRuns == Init /\ [][NextRuns]_vars

(***************************************************************************)
(* SpecEnds: the ends of match-1 in any order.  The log shows the persona   *)
(* id; business ends with and without time, counts and reason, with team    *)
(* ids that give a win, a loss or no result, and room-state completions     *)
(* with and without a winner follow, among them the start of the match.     *)
(***************************************************************************)
EndWinFull ==
    [EndLine("match-1", 2, 2, "ResultReason_Game", 50) EXCEPT !.turns = 7, !.secs = 300]

EndLossLate ==
    [EndLine("match-1", 2, 1, "ResultReason_Concede", 60) EXCEPT !.turns = 9]

EndNoTeam == EndLine("match-1", -1, 2, "", 0)

RoomLost ==
    RoomLine("match-1", "E1", Completed,
             <<ResultEntry("MatchScope_Match", 1, "ResultReason_Concede")>>, 20)

RoomNoWinner ==
    RoomLine("match-1", "E1", Completed,
             <<ResultEntry("MatchScope_Match", 0, "ResultReason_Game")>>, 30)

KindsEnds == {Start1, EndWinFull, EndLossLate, EndUnknown, EndNoTeam, RoomDone, RoomLost,
              RoomNoWinner}

NextEnds ==
    \/ AppendLine(KindsEnds, NumLines(PersonaShown))
    \/ StartPass(TRUE)
    \/ ReadLine
    \/ Finish

SpecEnds == InitMatch /\ [][NextEnds]_vars

(***************************************************************************)
(* Properties of the resume boundary.                                       *)
(***************************************************************************)
\* hist.handed[i] counts how often byte i of the present file was handed to
\* line processing; hist.undetected records that a resume pass met a file
\* that replaced the one its saved offset was computed on and is not shorter
\* than that offset.
Consumed ==
    IF pc = "reading" THEN byteOffset
    ELSE IF db.bgen = gen THEN db.ingest.offset ELSE 0

HandedOnce == \A i \in 1..Len(file) : hist.handed[i] = (IF i <= Consumed THEN 1 ELSE 0)

Shorter == pass.saved.found /\ pass.saved.offset > pass.size

\* C1, as stated: over successful resume passes every byte of the file is
\* handed to line processing exactly once (none twice, none skipped), also
\* when the file was rotated or truncated between passes.
C1_HandedOnceAlways == HandedOnce

\* C1, amended: a successful resume pass begins at the saved offset, or at 0
\* when the saved offset is greater than the file size; every byte is handed
\* to line processing exactly once as long as no pass met a replacement file
\* that is not shorter than the saved offset.
C1_HandedOnceUnlessUndetected ==
    /\ (pc = "reading" =>
           pass.startOffset = (IF pass.saved.offset > pass.size THEN 0 ELSE pass.saved.offset))
    /\ (~hist.undetected => HandedOnce)

\* a later pass began at a saved offset above 0 and consumed the appended bytes
C1_Witness ==
    /\ pc = "idle" /\ pass.ok /\ hist.passes >= 2 /\ ~hist.undetected
    /\ pass.startOffset > 0
    /\ db.bgen = gen /\ db.ingest.offset = Len(file) /\ Len(file) > pass.startOffset

\* C5: after a pass over a file that ends in an unterminated line the saved
\* offset is at the start of a line (0, or just after a terminator).
C5_OffsetAtLineStart ==
    (pc = "idle" /\ gen = 0 /\ db.ingest.found) =>
        (db.ingest.offset = 0 \/ file[db.ingest.offset].t = "NL")

FullyParsedAtStart ==
    /\ hist.passes > 0 /\ pass.resume /\ pass.saved.found /\ pass.sameFile
    /\ pass.saved.offset = pass.size

\* C6: a successful resume pass over a fully parsed, unchanged file reads no
\* line and leaves every row and the ingest state as they were.
C6_NoChangeNoEffect ==
    (pc = "idle" /\ pass.ok /\ FullyParsedAtStart) => (linesRead = 0 /\ db = pass.startDb)

\* a further pass over a file parsed to its end before
C6_Witness ==
    /\ pc = "idle" /\ pass.ok /\ FullyParsedAtStart
    /\ pass.size > 0 /\ hist.passes >= 2
    /\ pass.startDb.ingest.offset = pass.size

JoinE1In(f) ==
    \E i \in 1..(Len(f) - 1) : f[i] = H(JoinLine("E1")) /\ f[i + 1].t = "T"

\* C7: a resume pass that finds the saved offset greater than the file size
\* starts at offset 0, line 0, with an empty correlator state; when it
\* succeeds every byte of the file it found was handed to line processing
\* once, and an EventJoin for E1 in it has its active EventRun.
C7_ShorterFileRestartsFresh ==
    (hist.passes > 0 /\ pass.resume /\ Shorter) =>
        /\ pass.startOffset = 0
        /\ pass.startLine = 0
        /\ pass.startState = EmptyState
        /\ (pc = "idle" /\ pass.ok /\ db.bgen = gen) =>
              /\ \A i \in 1..pass.size : hist.handed[i] = 1
              /\ JoinE1In(SubSeq(file, 1, pass.size)) =>
                    (Has(db.eventRuns, "E1") /\ db.eventRuns["E1"].status = "active")

\* the old file had set an active match; the shorter new file holds an
\* EventJoin and was ingested
C7_Witness ==
    /\ pc = "idle" /\ pass.ok /\ pass.resume /\ Shorter /\ db.bgen = gen
    /\ pass.size > 0
    /\ JoinE1In(SubSeq(file, 1, pass.size))
    /\ stateByLog[LogPath].activeMatchID = ""
    /\ Has(pass.startDb.matches, "match-1")

Decreases ==
    /\ db.ingest.found
    /\ (db'.ingest.offset < db.ingest.offset \/ db'.ingest.lineNo < db.ingest.lineNo)

\* C2: a pass that ends by an error leaves the committed content, ingest
\* state included, as the last commit wrote it; the content changes only by
\* a commit of a whole transaction; every byte below the saved offset was
\* processed in a committed transaction.
C2_CommitOrRollbackTogether ==
    /\ [](~hist.undetected => \A i \in 1..db.ingest.offset : <<db.bgen, i>> \in db.cov)
    /\ [][((pc = "reading" /\ pc' = "idle" /\ ~pass'.ok) => (db' = db /\ tx' = db))
          /\ (db' # db => db' = tx')]_vars

\* a pass failed with lines of an uncommitted batch, after an earlier commit
C2_Witness ==
    /\ pc = "idle" /\ hist.passes > 0 /\ ~pass.ok
    /\ linesSinceCommit > 0
    /\ db.ingest.found /\ db.ingest.offset > 0 /\ db.ingest.offset < byteOffset
    /\ Len(db.raw) < lineNo

\* C8, as stated: the stored (offset, line_no) decreases from one commit to
\* the next only when the file was shorter than the stored offset.
C8_DecreaseOnlyWhenShorter == [][Decreases => Shorter]_vars

\* C8, amended: the stored (offset, line_no) decreases from one commit to
\* the next only when the file was shorter than the stored offset or in a
\* pass run with resume off, which reads from (0,0).
C8_DecreaseOnlyWhenShorterOrNoResume == [][Decreases => (Shorter \/ ~pass.resume)]_vars

\* a pass with resume off has committed a boundary below the one stored before
C8_Witness ==
    /\ pc = "reading" /\ ~pass.resume /\ pass.saved.found /\ ~Shorter
    /\ db.ingest.offset < pass.saved.offset

(***************************************************************************)
(* Properties of the correlator across passes.                              *)
(***************************************************************************)
\* C3: after passes that failed and were run again on the same Parser, a
\* successful pass over the whole file leaves the rows and the ingest state
\* of one uninterrupted pass over the same bytes.
C3_RetryEqualsUninterrupted ==
    (pc = "idle" /\ pass.ok /\ pass.size = Len(file)) => Rows(db) = Rows(Backfill(file))

\* C4: with the file cut at arbitrary bytes and a resume pass after each
\* append, the rows and the ingest state at the end are those of one
\* backfill pass over the whole file.
C4_PrefixesEqualBackfill ==
    (pc = "idle" /\ gen = 0 /\ db.bgen = 0 /\ pass.ok /\ db.ingest.found
       /\ db.ingest.offset = Len(file))
        => Rows(db) = Rows(Backfill(file))

\* C9: with whole lines appended between successful resume passes on one
\* Parser, the rows and the ingest state after a pass are those of one pass
\* over the whole file; a game state line without a matchID read by a later
\* pass has its card play and opponent card rows under the match that was
\* active when the earlier pass ended.
C9_StateCarriedAcrossPasses ==
    (pc = "idle" /\ hist.passes > 0 /\ pass.ok /\ db.ingest.offset = Len(file)) =>
        /\ Rows(db) = Rows(Backfill(file))
        /\ (file = LineOf(GreM1) \o LineOf(GreNoMatch)) =>
              /\ DOMAIN db.plays = {<<"match-1", 1, 101>>, <<"match-1", 1, 102>>}
              /\ DOMAIN db.oppCards = {<<"match-1", 1, 101>>, <<"match-1", 1, 102>>}

\* the second pass began after the first line and read the line without matchID
C9_Witness ==
    /\ pc = "idle" /\ pass.ok /\ hist.passes = 2
    /\ file = LineOf(GreM1) \o LineOf(GreNoMatch)
    /\ pass.startOffset = Len(LineOf(GreM1))
    /\ db.ingest.offset = Len(file)
    /\ Has(db.plays, <<"match-1", 1, 102>>)
    /\ Has(db.oppCards, <<"match-1", 1, 102>>)

LinesOfKind(kinds) == {i \in 1..Len(file) : file[i].t = "H" /\ file[i].p \in kinds}

Ends == {EndWin, EndLoss, EndUnknown}

\* C10: in a fully ingested log with one type-3 start of the match for E1
\* followed by one type-4 end that gives a win or a loss, wins + losses of
\* EventRun E1 is 1, whatever room state lines the log holds.
C10_OneBumpPerMatch ==
    (/\ pc = "idle" /\ pass.ok /\ pass.size = Len(file) /\ db.ingest.offset = Len(file)
     /\ Cardinality(LinesOfKind({Start1})) = 1
     /\ Cardinality(LinesOfKind(Ends)) = 1
     /\ LinesOfKind({EndUnknown}) = {}
     /\ \A i \in LinesOfKind({Start1}) : \A j \in LinesOfKind(Ends) : i < j)
        => db.eventRuns["E1"].wins + db.eventRuns["E1"].losses = 1

(***************************************************************************)
(* Properties of the card observations.                                     *)
(***************************************************************************)
\* the lines of the file that show the card instance
LinesShowing(inst) ==
    {i \in 1..Len(file) : file[i].t = "H" /\ file[i].p.k = "gre_state"
                          /\ \E j \in 1..Len(file[i].p.objs) : file[i].p.objs[j].instanceId = inst}

\* the timestamp of the first line of the file that shows the card instance
FirstShownAt(inst) ==
    LET first == CHOOSE i \in LinesShowing(inst) : \A j \in LinesShowing(inst) : i <= j
    IN  parseRoomTimestamp(file[first].p.ts)

\* the lines handed to line processing by the passes so far show it with
\* two different timestamps at least
ShownTwice(inst) ==
    \E i, j \in LinesShowing(inst) :
        /\ i < j /\ j <= db.ingest.offset
        /\ parseRoomTimestamp(file[i].p.ts) # parseRoomTimestamp(file[j].p.ts)

GamesShown(inst) ==
    {IF file[i].p.game = 0 THEN 1 ELSE file[i].p.game : i \in LinesShowing(inst)}

\* C12: once the file is ingested, instance 101 of match-1 has one
\* MatchCardPlay row and one MatchOpponentCardInstance row for each game
\* number its lines carry (1 where absent): the same instance seen in game 1
\* and in game 2 has two rows of each kind.
C12_OneRowPerGame ==
    (pc = "idle" /\ pass.ok /\ db.ingest.offset = Len(file) /\ LinesShowing(101) # {})
        => /\ {k[2] : k \in {r \in DOMAIN db.plays : r[1] = "match-1" /\ r[3] = 101}}
                = GamesShown(101)
           /\ {k[2] : k \in {r \in DOMAIN db.oppCards : r[1] = "match-1" /\ r[3] = 101}}
                = GamesShown(101)

(***************************************************************************)
(* Properties of the event name aliases.                                    *)
(***************************************************************************)
EventNames ==
    {"", "E1", "Traditional_Ladder", "QuickDraft_FIN_20250619", "QuickDraft_FIN_20250701",
     "PremierDraft_FIN_20250610", "Sealed_FIN_20250610", "TradSealed_FIN_20250610",
     "QuickDraft_EOE_20250801", "FIN_Quick_Draft", "FIN_Premier_Draft",
     "FIN_Sealed", "EOE_Quick_Draft", "FIN_Trad_Sealed",
     "QuickDraft0FIN0_Quick_Draft", "QuickDraft_QuickDraft0FIN0_1",
     "QuickDraft_FIN_20250619 "}

Substrings == {"quickdraft", "premierdraft", "traditionalsealed",
               "sealed", "jump_in", "ladder"}

Patterns ==
    {"quickdraft_fin_%", "premierdraft_fin_%", "sealed_fin_%",
     "quickdraft_eoe_%", "quickdraft_quickdraft0fin0_%"}

\* the characters of the strings of the model
Spell(str) ==
    CASE str = "" -> <<>>
      [] str = "E1" ->
           <<"E", "1">>
      [] str = "Traditional_Ladder" ->
           <<"T", "r", "a", "d", "i", "t", "i", "o", "n", "a", "l", "_", "L", "a", "d", "d", "e", "r">>
      [] str = "QuickDraft_FIN_20250619" ->
           <<"Q", "u", "i", "c", "k", "D", "r", "a", "f", "t", "_", "F", "I", "N", "_", "2", "0", "2", "5", "0", "6", "1", "9">>
      [] str = "QuickDraft_FIN_20250619 " ->
           <<"Q", "u", "i", "c", "k", "D", "r", "a", "f", "t", "_", "F", "I", "N", "_", "2", "0", "2", "5", "0", "6", "1", "9", " ">>
      [] str = "QuickDraft_FIN_20250701" ->
           <<"Q", "u", "i", "c", "k", "D", "r", "a", "f", "t", "_", "F", "I", "N", "_", "2", "0", "2", "5", "0", "7", "0", "1">>
      [] str = "PremierDraft_FIN_20250610" ->
           <<"P", "r", "e", "m", "i", "e", "r", "D", "r", "a", "f", "t", "_", "F", "I", "N", "_", "2", "0", "2", "5", "0", "6", "1", "0">>
      [] str = "Sealed_FIN_20250610" ->
           <<"S", "e", "a", "l", "e", "d", "_", "F", "I", "N", "_", "2", "0", "2", "5", "0", "6", "1", "0">>
      [] str = "TradSealed_FIN_20250610" ->
           <<"T", "r", "a", "d", "S", "e", "a", "l", "e", "d", "_", "F", "I", "N", "_", "2", "0", "2", "5", "0", "6", "1", "0">>
      [] str = "QuickDraft_EOE_20250801" ->
           <<"Q", "u", "i", "c", "k", "D", "r", "a", "f", "t", "_", "E", "O", "E", "_", "2", "0", "2", "5", "0", "8", "0", "1">>
      [] str = "FIN_Quick_Draft" ->
           <<"F", "I", "N", "_", "Q", "u", "i", "c", "k", "_", "D", "r", "a", "f", "t">>
      [] str = "FIN_Premier_Draft" ->
           <<"F", "I", "N", "_", "P", "r", "e", "m", "i", "e", "r", "_", "D", "r", "a", "f", "t">>
      [] str = "FIN_Sealed" ->
           <<"F", "I", "N", "_", "S", "e", "a", "l", "e", "d">>
      [] str = "EOE_Quick_Draft" ->
           <<"E", "O", "E", "_", "Q", "u", "i", "c", "k", "_", "D", "r", "a", "f", "t">>
      [] str = "FIN_Trad_Sealed" ->
           <<"F", "I", "N", "_", "T", "r", "a", "d", "_", "S", "e", "a", "l", "e", "d">>
      [] str = "QuickDraft0FIN0_Quick_Draft" ->
           <<"Q", "u", "i", "c", "k", "D", "r", "a", "f", "t", "0", "F", "I", "N", "0", "_", "Q", "u", "i", "c", "k", "_", "D", "r", "a", "f", "t">>
      [] str = "QuickDraft_QuickDraft0FIN0_1" ->
           <<"Q", "u", "i", "c", "k", "D", "r", "a", "f", "t", "_", "Q", "u", "i", "c", "k", "D", "r", "a", "f", "t", "0", "F", "I", "N", "0", "_", "1">>
      [] str = "quickdraft" ->
           <<"q", "u", "i", "c", "k", "d", "r", "a", "f", "t">>
      [] str = "premierdraft" ->
           <<"p", "r", "e", "m", "i", "e", "r", "d", "r", "a", "f", "t">>
      [] str = "traditionalsealed" ->
           <<"t", "r", "a", "d", "i", "t", "i", "o", "n", "a", "l", "s", "e", "a", "l", "e", "d">>
      [] str = "sealed" ->
           <<"s", "e", "a", "l", "e", "d">>
      [] str = "jump_in" ->
           <<"j", "u", "m", "p", "_", "i", "n">>
      [] str = "ladder" ->
           <<"l", "a", "d", "d", "e", "r">>
      [] str = "quickdraft_fin_%" ->
           <<"q", "u", "i", "c", "k", "d", "r", "a", "f", "t", "_", "f", "i", "n", "_", "%">>
      [] str = "premierdraft_fin_%" ->
           <<"p", "r", "e", "m", "i", "e", "r", "d", "r", "a", "f", "t", "_", "f", "i", "n", "_", "%">>
      [] str = "sealed_fin_%" ->
           <<"s", "e", "a", "l", "e", "d", "_", "f", "i", "n", "_", "%">>
      [] str = "quickdraft_eoe_%" ->
           <<"q", "u", "i", "c", "k", "d", "r", "a", "f", "t", "_", "e", "o", "e", "_", "%">>
      [] str = "quickdraft_quickdraft0fin0_%" ->
           <<"q", "u", "i", "c", "k", "d", "r", "a", "f", "t", "_", "q", "u", "i", "c", "k", "d", "r", "a", "f", "t", "0", "f", "i", "n", "0", "_", "%">>

\* strings.ToLower / LOWER(), one character
LowerChar(c) ==
    CASE c = "A" -> "a"
      [] c = "B" -> "b"
      [] c = "C" -> "c"
      [] c = "D" -> "d"
      [] c = "E" -> "e"
      [] c = "F" -> "f"
      [] c = "G" -> "g"
      [] c = "H" -> "h"
      [] c = "I" -> "i"
      [] c = "J" -> "j"
      [] c = "K" -> "k"
      [] c = "L" -> "l"
      [] c = "M" -> "m"
      [] c = "N" -> "n"
      [] c = "O" -> "o"
      [] c = "P" -> "p"
      [] c = "Q" -> "q"
      [] c = "R" -> "r"
      [] c = "S" -> "s"
      [] c = "T" -> "t"
      [] c = "U" -> "u"
      [] c = "V" -> "v"
      [] c = "W" -> "w"
      [] c = "X" -> "x"
      [] c = "Y" -> "y"
      [] c = "Z" -> "z"
      [] OTHER -> c

ToLower(str) == [i \in 1..Len(str) |-> LowerChar(str[i])]

\* strings.Contains
Contains(str, sub) ==
    \E i \in 0..(Len(str) - Len(sub)) : SubSeq(str, i + 1, i + Len(sub)) = sub

\* [A-Za-z0-9]
IsAlnum(c) ==
    c \in {"a", "b", "c", "d", "e", "f", "g", "h", "i", "j", "k", "l", "m", "n", "o", "p", "q",
           "r", "s", "t", "u", "v", "w", "x", "y", "z", "0", "1", "2", "3", "4", "5", "6", "7",
           "8", "9"}
    \/ LowerChar(c) # c

\* ^([A-Za-z0-9]+)_(Quick_Draft|Premier_Draft|Sealed)$ : <<set code, kind>>
\* of the match, <<>> when the name does not match
reSetKindEvent(str) ==
    LET us == {i \in 1..Len(str) : str[i] = "_"}
        u == IF us = {} THEN 0 ELSE CHOOSE i \in us : \A j \in us : i <= j
        rest == SubSeq(str, u + 1, Len(str))
    IN  IF u > 1 /\ (\A i \in 1..(u - 1) : IsAlnum(str[i]))
           /\ rest \in {<<"Q", "u", "i", "c", "k", "_", "D", "r", "a", "f", "t">>, <<"P", "r", "e", "m", "i", "e", "r", "_", "D", "r", "a", "f", "t">>, <<"S", "e", "a", "l", "e", "d">>}
        THEN <<SubSeq(str, 1, u - 1), rest>>
        ELSE <<>>

\* the LIKE pattern built from the groups of reSetKindEvent (<<>> when the
\* name does not match)
likePattern(str) ==
    LET matches == reSetKindEvent(str)
    IN  IF matches = <<>> THEN <<>>
        ELSE LET setCode == ToLower(matches[1])
                 kind == ToLower(matches[2])
                 prefix == CASE kind = ToLower(<<"Q", "u", "i", "c", "k", "_", "D", "r", "a", "f", "t">>) -> Spell("quickdraft")
                             [] kind = ToLower(<<"P", "r", "e", "m", "i", "e", "r", "_", "D", "r", "a", "f", "t">>) -> Spell("premierdraft")
                             [] kind = ToLower(<<"S", "e", "a", "l", "e", "d">>) -> Spell("sealed")
             IN  prefix \o <<"_">> \o setCode \o <<"_", "%">>

\* SQL LIKE: _ is any one character, % any run of characters
RECURSIVE Like(_, _)
Like(str, pattern) ==
    IF pattern = <<>> THEN str = <<>>
    ELSE IF Head(pattern) = "%"
         THEN \E k \in 0..Len(str) : Like(SubSeq(str, k + 1, Len(str)), Tail(pattern))
    ELSE IF str = <<>> THEN FALSE
    ELSE IF Head(pattern) = "_" \/ Head(pattern) = Head(str)
         THEN Like(Tail(str), Tail(pattern))
    ELSE FALSE

\* the tables of the store agree with the string operations they stand for
TablesAgree ==
    \A n \in EventNames :
        /\ \A sub \in Substrings :
               LowerContains(n, sub) = Contains(ToLower(Spell(n)), Spell(sub))
        /\ Spell(SetKindPattern(n)) = likePattern(Spell(n))
        /\ \A q \in Patterns : LowerLike(n, q) = Like(ToLower(Spell(n)), Spell(q))

\* the event name a match start line carries ("" for any other line)
StartName(p) ==
    IF (p.k = "outgoing" /\ p.method = "LogBusinessEvents" /\ p.etype = 3 /\ p.m # "")
       \/ (p.k = "room_state" /\ p.m # "")
    THEN p.e ELSE ""

\* the EventRuns of d whose lower-cased name matches quickdraft_<set>_%,
\* premierdraft_<set>_% or sealed_<set>_% for the compact name
AliasesOf(d, compact) ==
    {n \in DOMAIN d.eventRuns : Like(ToLower(Spell(n)), likePattern(Spell(compact)))}

CompactNames == {"FIN_Quick_Draft", "FIN_Premier_Draft", "FIN_Sealed", "EOE_Quick_Draft"}

ResolveNames ==
    {"FIN_Quick_Draft", "FIN_Premier_Draft", "FIN_Sealed", "EOE_Quick_Draft", "FIN_Trad_Sealed",
     "QuickDraft_FIN_20250619", "Sealed_FIN_20250610", "TradSealed_FIN_20250610",
     "QuickDraft0FIN0_Quick_Draft", "QuickDraft_QuickDraft0FIN0_1", "Traditional_Ladder", "E1", ""}

OrderedBefore(d, n, o) ==
    \/ d.eventRuns[n].started_at > d.eventRuns[o].started_at
    \/ /\ d.eventRuns[n].started_at = d.eventRuns[o].started_at
       /\ d.eventRuns[n].updated_at >= d.eventRuns[o].updated_at

\* C25: when a match start carries a compact name that no EventRun has and
\* several EventRuns match its pattern, the match's event_name becomes the
\* first of them in the order started_at DESC, updated_at DESC, whether the
\* started_at of the candidates are set or not.
C25_NewestByStartedThenUpdated ==
    [][(pc = "reading" /\ lineNo' = lineNo + 1 /\ StartName(Unread[1].p) \in CompactNames
          /\ ~Has(tx.eventRuns, StartName(Unread[1].p))
          /\ AliasesOf(tx, StartName(Unread[1].p)) # {})
       => LET p == Unread[1].p
              runs == AliasesOf(tx, StartName(p))
          IN  /\ tx'.matches[p.m].event_name \in runs
              /\ \A o \in runs : OrderedBefore(tx, tx'.matches[p.m].event_name, o)]_vars

(***************************************************************************)
(* Properties of the deck submissions.                                      *)
(***************************************************************************)
DeckIds == {"deck-A", "deck-B"}

\* the stored card lines of the deck, in insertion order
DeckCardsOf(d, deckId) == SelectSeq(d.deckCards, LAMBDA r : r.deck = deckId)

\* the card lines of a section of a submission, as rows
SectionRows(deckId, section, in) ==
    [i \in 1..Len(in) |->
        [deck |-> deckId, section |-> section, card_id |-> in[i].cardId,
         quantity |-> in[i].quantity]]

\* the positive-quantity card lines of a submission, as rows
PositiveLines(p) ==
    SelectSeq(SectionRows(p.deckId, "main", p.mainDeck)
                \o SectionRows(p.deckId, "sideboard", p.sideboard)
                \o SectionRows(p.deckId, "command", p.commandZone)
                \o SectionRows(p.deckId, "companion", p.companions),
              LAMBDA r : r.quantity > 0)

\* the lines among the first n bytes of the file that submit the deck
Submissions(deckId, n) ==
    {i \in 1..n : file[i].t = "H" /\ file[i].p.method = "EventSetDeckV2"
                  /\ file[i].p.deckId = deckId}

\* the card lines of the last submission of the deck among the first n bytes
LastSubmitted(deckId, n) ==
    IF Submissions(deckId, n) = {} THEN <<>>
    ELSE PositiveLines(file[CHOOSE i \in Submissions(deckId, n) :
                                \A j \in Submissions(deckId, n) : j <= i].p)

\* C16: the stored card lines of each deck are exactly the positive-quantity
\* card lines of the last committed submission for that deck, and a
\* submission for one deck leaves the stored lines of every other deck.
C16_DeckCardsOfLastSubmission ==
    /\ [](\A deckId \in DeckIds :
             DeckCardsOf(db, deckId) = LastSubmitted(deckId, db.ingest.offset))
    /\ [][(pc = "reading" /\ lineNo' = lineNo + 1)
          => \A deckId \in DeckIds \ {Unread[1].p.deckId} :
                 DeckCardsOf(tx', deckId) = DeckCardsOf(tx, deckId)]_vars

\* deck-A was submitted, then deck-B, then deck-A again with other contents
C16_Witness ==
    /\ pc = "idle" /\ pass.ok /\ db.ingest.offset = Len(file)
    /\ file = LineOf(DeckA1) \o LineOf(DeckB1) \o LineOf(DeckA2)
    /\ Len(DeckCardsOf(db, "deck-A")) = 2
    /\ Len(DeckCardsOf(db, "deck-B")) = 1

(***************************************************************************)
(* Properties of the match result.                                          *)
(***************************************************************************)
\* the log's match end line was committed
EndCommitted == db.ingest.offset = Len(file) /\ Len(file) = 6

\* C17: the stored result of a match end is win when both team ids are
\* positive and equal, loss when both are positive and different, and
\* unknown in every other case.
C17_ResultFromTeamIds ==
    EndCommitted =>
        LET teamID == file[4].p.team
            winningTeamID == file[4].p.wteam
            result == db.matches["match-1"].result
        IN  /\ (teamID > 0 /\ winningTeamID > 0 /\ teamID = winningTeamID) => result = "win"
            /\ (teamID > 0 /\ winningTeamID > 0 /\ teamID # winningTeamID) => result = "loss"
            /\ (teamID <= 0 \/ winningTeamID <= 0) => result = "unknown"

\* equal team ids that are not positive: the result is unknown
C17_Witness ==
    /\ EndCommitted /\ pc = "idle"
    /\ file[4].p.team = -1 /\ file[4].p.wteam = -1
    /\ db.matches["match-1"].result = "unknown"

(***************************************************************************)
(* Properties of the command line.                                          *)
(***************************************************************************)
\* ParseFile has returned an error and the driver has not yet acted on it
FailedPassReturned(cmd) ==
    /\ cli.at = "run" /\ cli.cmd = cmd /\ pc = "idle" /\ ~pass.ok
    /\ hist.passes = (IF cmd = "tail" THEN cli.ticks ELSE cli.done) + 1

\* C18: in tail mode a failing pass rolls its transaction back and leaves the
\* loop running; the driver then logs the error and either takes the next
\* tick, after which the next pass is a resume pass, or ends with success on
\* cancellation, the only way the loop ends.  In parse mode a failing pass
\* makes the driver stop with an error, the paths after the failing one are
\* left, and no pass runs after it.
C18_TailRetriesBackfillStops ==
    /\ [][(cli.cmd = "tail" /\ pc = "reading" /\ pc' = "idle" /\ ~pass'.ok)
          => (db' = db /\ tx' = db /\ cli' = cli)]_vars
    /\ [][(FailedPassReturned("tail") /\ cli' # cli)
          => /\ cli'.logged = cli.logged + 1
             /\ \/ (cli'.at = "run" /\ cli'.ticks = cli.ticks + 1)
                \/ (cli'.at = "exited" /\ cli'.code = 0 /\ cli'.cause = "cancelled")]_vars
    /\ [][(cli.cmd = "tail" /\ cli.at = "run" /\ cli'.at = "exited")
          => (cli'.code = 0 /\ cli'.cause = "cancelled")]_vars
    /\ [][(cli.cmd = "tail" /\ pc = "idle" /\ pc' = "reading")
          => (pass'.resume /\ hist.passes = cli.ticks)]_vars
    /\ [][(FailedPassReturned("parse") /\ cli' # cli)
          => (cli'.at = "exited" /\ cli'.code # 0 /\ cli'.paths = cli.paths
              /\ cli'.done = cli.done)]_vars
    /\ [](cli.at = "exited" => (pc = "idle" /\ ~ENABLED ParsePass /\ ~ENABLED TailPass))

\* tail: the first pass failed, the error was logged, and after the tick a
\* second pass is reading with resume on
C18_Witness ==
    /\ cli.cmd = "tail" /\ cli.at = "run" /\ cli.logged = 1 /\ cli.ticks = 1
    /\ hist.passes = 2 /\ pc = "reading" /\ pass.resume /\ Len(file) > 0

\* C19: the process exits with 0 on success, with 1 on a usage or argument
\* error, and with 2 on a runtime error.
C19_ExitCodes ==
    cli.at = "exited" =>
        cli.code = CASE cli.cause \in {"success", "cancelled"} -> 0
                     [] cli.cause \in {"usage", "flag"} -> 1
                     [] cli.cause \in {"storage", "paths", "tail_start", "parse", "server"} -> 2

(***************************************************************************)
(* Properties of the raw events.                                            *)
(***************************************************************************)
ClassifiedKinds == {"outgoing", "method_complete", "room_state", "gre_state"}

\* kind, line number and byte offset of the start of each classified line
\* among the first n lines of the file, in file order
ClassifiedLines(n) ==
    SelectSeq([i \in 1..n |->
                  [kind |-> file[3 * (i - 1) + 1].p.k, line_no |-> i,
                   byte_offset |-> 3 * (i - 1)]],
              LAMBDA r : r.kind \in ClassifiedKinds)

\* kind, line number and byte offset of the RawEvent rows, in insertion order
RawEventRows(d) ==
    [i \in 1..Len(d.raw) |->
        [kind |-> d.raw[i].kind, line_no |-> d.raw[i].line_no,
         byte_offset |-> d.raw[i].byte_offset]]

\* C20: the committed RawEvent rows are, in order, one row for each
\* committed line classified as outgoing, method_complete, room_state or
\* gre_state, holding that kind, the line number and the byte offset of the
\* start of the line; noise lines have no row.
C20_OneRawEventPerClassifiedLine ==
    RawEventRows(db) = ClassifiedLines(db.ingest.lineNo)

(***************************************************************************)
(* Properties of the event runs.                                            *)
(***************************************************************************)
\* the line the next turn of the line loop reads is a whole line of the
\* method with a non-empty event name
ReadsMethod(method) ==
    /\ pc = "reading" /\ Unread # <<>>
    /\ Unread[1].t = "H" /\ Unread[1].p.k = "outgoing" /\ Unread[1].p.method = method
    /\ Unread[1].p.e # ""

\* C21: after an EventJoin line for E is processed, whatever the store held
\* before (no run of E, a run from an earlier join or match start, a claimed
\* run), the EventRun of E exists with status active and the event_type
\* derived from E.
C21_JoinLeavesActive ==
    [][(ReadsMethod("EventJoin") /\ lineNo' = lineNo + 1)
       => LET e == Unread[1].p.e
          IN  /\ Has(tx'.eventRuns, e)
              /\ tx'.eventRuns[e].status = "active"
              /\ tx'.eventRuns[e].event_type = detectEventType(e)]_vars

(***************************************************************************)
(* Properties of the match end.                                             *)
(***************************************************************************)
\* the reasons of the model that begin with ResultReason_ or WinningReason_
PrefixedReasons == {"ResultReason_Game", "ResultReason_Concede", "WinningReason_Concede"}

\* C22: no Match row, in the open transaction or committed, holds a
\* win_reason that begins with ResultReason_ or WinningReason_, whether an
\* EventType 4 line or a room state result entry supplied it.
C22_WinReasonStripped ==
    \A d \in {db, tx} : \A m \in DOMAIN d.matches :
        d.matches[m].win_reason \notin PrefixedReasons

\* the entries of match scope in a result list
OfMatchScope(results) == {i \in 1..Len(results) : results[i].scope = "MatchScope_Match"}

\* the entry the result list is to give: the entry of match scope when the
\* list has one, else the first entry with a positive winning team; an entry
\* without winning team when the list has neither
ChosenEntry(results) ==
    LET positive == {i \in 1..Len(results) : results[i].winningTeamId > 0}
        first(set) == CHOOSE i \in set : \A j \in set : i <= j
    IN  IF OfMatchScope(results) # {} THEN results[first(OfMatchScope(results))]
        ELSE IF positive # {} THEN results[first(positive)]
        ELSE ResultEntry("", 0, "")

\* C23: once the MatchCompleted envelope is committed, the match (the user
\* of the log is on team 2) holds the outcome of the match-scope entry of
\* its result list whenever the list has one, and of the first entry with a
\* positive winning team only when it has none; an entry without a winning
\* team records no outcome.  Lists with two entries of match scope are left
\* aside.
C23_MatchScopeEntryChosen ==
    (pc = "idle" /\ pass.ok /\ db.ingest.offset = Len(file)
     /\ Cardinality(OfMatchScope(file[4].p.results)) <= 1)
        => LET chosen == ChosenEntry(file[4].p.results)
               match == db.matches["match-1"]
           IN  IF chosen.winningTeamId > 0
               THEN /\ match.result = (IF chosen.winningTeamId = 2 THEN "win" ELSE "loss")
                    /\ match.win_reason = normalizeWinningReason(chosen.reason)
               ELSE match.result = "" /\ match.win_reason = ""

(***************************************************************************)
(* Properties of the correlator state.                                      *)
(***************************************************************************)
\* C24: the persona id of no correlator state begins with NoInstallID,
\* whichever pattern (PersonaId plain or escaped, Match to <id>:, clientId)
\* showed the id.
C24_NoInstallIDRejected ==
    \A path \in DOMAIN stateByLog : ~NoInstallID(stateByLog[path].personaID)

(***************************************************************************)
(* Properties of the match start.                                           *)
(***************************************************************************)
\* the time a start evidence line gives to UpsertMatchStart (0: none)
EvidenceTime(p) == IF p.k = "outgoing" THEN p.ts ELSE parseRoomTimestamp(p.ts)

\* the lines among the first n bytes of the file that carry a time
TimedLines(n) == {i \in 1..n : file[i].t = "H" /\ EvidenceTime(file[i].p) # 0}

\* the time of the first of them (0: none)
FirstTime(n) ==
    IF TimedLines(n) = {} THEN 0
    ELSE EvidenceTime(file[CHOOSE i \in TimedLines(n) : \A j \in TimedLines(n) : i <= j].p)

\* C26: started_at of a Match, once set, is never changed by a later line
\* for the match (EventType 3, room state or game state), whether the line
\* carries an earlier, a later or no time: it is the time of the first
\* committed line that carries one.
C26_StartedAtNeverChanged ==
    /\ [][\A d \in {"db", "tx"} :
            LET before == IF d = "db" THEN db ELSE tx
                after == IF d = "db" THEN db' ELSE tx'
            IN  \A m \in DOMAIN before.matches :
                    before.matches[m].started_at # 0
                        => /\ Has(after.matches, m)
                           /\ after.matches[m].started_at = before.matches[m].started_at]_vars
    /\ []((Has(db.matches, "match-1") /\ (pc = "idle" \/ pass.resume))
            => db.matches["match-1"].started_at = FirstTime(db.ingest.offset))

\* the match started at 30000 by its EventType 3 line; a room state with the
\* earlier time 20000 and a game state with the later time 40000 followed
C26_Witness ==
    /\ pc = "idle" /\ pass.ok /\ db.ingest.offset = Len(file)
    /\ file = LineOf(StartLine("match-1", "E1", 2, 30000))
                \o LineOf(RoomLine("match-1", "E1", Playing, <<>>, 20000))
                \o LineOf(GRELine("match-1", <<2>>, 1, "Phase_Main1", Battlefield, <<>>, 40000))
    /\ db.matches["match-1"].started_at = 30000

(***************************************************************************)
(* Properties of the transactions of a pass.                                *)
(***************************************************************************)
\* the boundary a commit saves
SavedBoundary(offset, line) == [found |-> TRUE, offset |-> offset, lineNo |-> line]

\* the lines read in the pass since its last commit
OpenLines == lineNo - (IF linesRead < batchSize THEN pass.startLine ELSE db.ingest.lineNo)

\* C27: in a pass a transaction is committed after every batchSize-th line
\* read since the previous commit (empty and noise lines count) and once
\* more at end of input, so no transaction covers more than batchSize lines;
\* each commit makes the writes of the batch's lines and the boundary
\* (offset, line_no) after the last line of the batch the committed content.
C27_CommitEveryBatch ==
    /\ [](pc = "reading" => OpenLines < batchSize /\ OpenLines = linesSinceCommit)
    /\ [][(pc = "reading" /\ pc' = "reading" /\ lineNo' = lineNo + 1)
            => IF linesRead' % batchSize = 0
               THEN /\ db'.ingest = SavedBoundary(byteOffset', lineNo')
                    /\ db'.cov = tx.cov \cup {<<gen, i>> : i \in (byteOffset + 1)..byteOffset'}
                    /\ db' = tx'
               ELSE /\ db' = db
                    /\ tx'.ingest = tx.ingest]_vars
    /\ [][(pc = "reading" /\ pc' = "idle")
            => /\ db'.ingest = SavedBoundary(byteOffset, lineNo)
               /\ Rows(db') = [Rows(tx) EXCEPT !.ingest = SavedBoundary(byteOffset, lineNo)]]_vars

\* a pass over four lines (noise, empty, EventJoin, noise) has committed
\* after its second line and after its fourth, the RawEvent of the third
\* line with the boundary after the fourth
C27_Witness ==
    /\ pc = "reading" /\ linesRead = 4 /\ linesSinceCommit = 0
    /\ file = LineOf(NoiseLine) \o <<NL>> \o LineOf(JoinLine("E1")) \o LineOf(NoiseLine)
    /\ db.ingest = SavedBoundary(Len(file), 4)
    /\ Len(db.raw) = 1 /\ db.raw[1].line_no = 3

(***************************************************************************)
(* Properties of cancellation.                                              *)
(***************************************************************************)
\* the next unread line is one whose handler calls the store
NeedsStore == Unread # <<>> /\ Unread[1].t = "H" /\ Unread[1].p.k = "outgoing"

\* C28 as stated: once the context is cancelled the pass processes no
\* further line and commits no further transaction; its next step ends it
\* with an error and the saved boundary stays.
C28_NoLineAfterCancel ==
    [][pc = "cancelled"
        => /\ pc' = "idle" /\ ~pass'.ok
           /\ stateByLog' = stateByLog
           /\ db' = db]_vars

\* C28 amended: once the context is cancelled the pass writes nothing more
\* to the store and commits no further transaction; it ends with an error at
\* the first line whose handler calls the store, at the latest at the end of
\* the batch or of the input, and the saved boundary stays the one committed
\* before the signal.  Lines without a store call are still processed.
C28_CancelStopsWrites ==
    [][pc = "cancelled"
        => /\ db' = db
           /\ Rows(tx') \in {Rows(tx), Rows(db)}
           /\ (pc' = "idle" => ~pass'.ok)
           /\ (pc' = "idle") = (Unread = <<>> \/ NeedsStore \/ linesSinceCommit + 1 >= batchSize)
           /\ (pc' = "cancelled" => lineNo' = lineNo + 1)]_vars

\* a pass cancelled before its first line has processed a persona line and
\* ended with an error at the EventJoin line after it
C28_Witness ==
    /\ pc = "idle" /\ pass.cancelAt = 0 /\ ~pass.ok /\ lineNo = 2
    /\ file = LineOf(PersonaLineBy("PersonaId", "self-user")) \o LineOf(JoinLine("E1"))
    /\ pass.startState.personaID = ""
    /\ stateByLog[LogPath].personaID = "self-user"
    /\ db = pass.startDb

(***************************************************************************)
(* Properties of the per-log states.                                        *)
(***************************************************************************)
InFlight == {i \in Runs : pass[i].at = "reading"}

\* the object the map holds for a path, 0 when it holds none; by the
\* character-level meaning of TrimSpace
KeyOf(logPath) ==
    IF logPath = "Player.log " THEN "Player.log" ELSE IF logPath = " " THEN "" ELSE logPath

StateOfPath(byLog, logPath) == Get(byLog.ref, KeyOf(logPath), 0)

ShapeOf(p) ==
    CASE p.head = "==>" -> "outgoing"
      [] p.head = "<==" -> "method_complete"
      [] p.head = "{" /\ RoomToken \in p.tokens -> "room_state"
      [] p.head = "{" /\ RoomToken \notin p.tokens /\ GREToken \in p.tokens -> "gre_state"
      [] OTHER -> "noise"

\* the RawEvents a step has added to the transaction
AddedRaw == SubSeq(tx'.raw, Len(tx.raw) + 1, Len(tx'.raw))

\* the stored entities of a content
Entities(d) == [Rows(d) EXCEPT !.ingest = EmptyDB.ingest]

\* C30: a line is handled by one handler, chosen in the order outgoing,
\* completion, then for lines that begin with { the room-state token and
\* after it the game-engine token: it leaves the trace of that handler and
\* of no other; a line of none of the shapes changes no stored entity.
C30_OneHandlerByPriority ==
    [][(pc = "reading" /\ lineNo' = lineNo + 1 /\ Unread[1].t = "H")
        => LET p == Unread[1].p
               shape == ShapeOf(p)
               before == stateByLog[LogPath]
               after == stateByLog'[LogPath]
           IN  /\ shape \in {"outgoing", "method_complete", "room_state"}
                     => /\ Len(AddedRaw) = 1
                        /\ AddedRaw[1].kind = shape
                        /\ AddedRaw[1].line_no = lineNo'
               /\ shape \in {"gre_state", "noise"} => AddedRaw = <<>>
               /\ shape = "outgoing"
                     => /\ tx'.matches = tx.matches
                        /\ Has(tx'.eventRuns, p.e)
                        /\ after.activeMatchID = before.activeMatchID
                        /\ after.turnByMatch = before.turnByMatch
               /\ shape = "method_complete"
                     => /\ [Entities(tx') EXCEPT !.raw = tx.raw] = Entities(tx)
                        /\ after = before
               /\ shape = "room_state"
                     => /\ Has(tx'.matches, p.m)
                        /\ after.activeMatchID = p.m
                        /\ after.turnByMatch = before.turnByMatch
                        /\ after.phaseByMatch = before.phaseByMatch
               /\ shape = "gre_state"
                     => /\ Has(tx'.matches, p.m)
                        /\ after.activeMatchID = p.m
                        /\ after.turnByMatch[p.m] = p.turn
               /\ shape = "noise"
                     => /\ Entities(tx') = Entities(tx)
                        /\ after = before]_vars

\* a pass over the envelope with both tokens, the same text not beginning
\* with { and the outgoing line with both tokens: one room_state and one
\* outgoing RawEvent, and no turn remembered
C30_Witness ==
    /\ pc = "idle" /\ pass.ok /\ db.ingest.offset = Len(file)
    /\ file = LineOf(BraceBoth) \o LineOf(NoBraceBoth) \o LineOf(OutgoingBoth)
    /\ Len(db.raw) = 2
    /\ db.raw[1].kind = "room_state" /\ db.raw[1].line_no = 1
    /\ db.raw[2].kind = "outgoing" /\ db.raw[2].line_no = 3
    /\ stateByLog[LogPath].turnByMatch = EmptyMap

(***************************************************************************)
(* Properties of the game objects.                                          *)
(***************************************************************************)
\* the object conditions of the claim
CardShown(obj) ==
    /\ obj.instanceId > 0 /\ obj.grpId > 0 /\ obj.ownerSeatId > 0
    /\ obj.type = "GameObjectType_Card"
    /\ obj.visibility = "Visibility_Public"
    /\ ~obj.isToken

\* the zone of an object by the zone map remembered for the match m in the
\* correlator state s, else by the zone id
ResolvedZone(s, m, obj) ==
    IF Has(s.zoneTypeByMatch, m) /\ Has(s.zoneTypeByMatch[m], obj.zoneId)
    THEN s.zoneTypeByMatch[m][obj.zoneId]
    ELSE IF obj.zoneId = 27 THEN "stack" ELSE IF obj.zoneId = 28 THEN "battlefield" ELSE ""

ObjectsOf(p) == {p.objs[i] : i \in 1..Len(p.objs)}

\* instance ids that only tokens, private objects, abilities and objects
\* without grpId carry, and the one only a card of the user carries
NeverRecorded == {102, 103, 104, 107}

SelfOwned == {106}

\* C31: a new MatchCardPlay row comes from a public, non-token card object
\* with positive ids whose resolved zone is stack or battlefield; a new
\* MatchOpponentCardInstance row from such an object (in any zone) when the
\* self seat of the match is known and is not the owner.  No row is recorded
\* for a token or non-public object, no opponent row for a self-owned one.
C31_RowsOnlyForPublicCards ==
    /\ [][(pc = "reading" /\ lineNo' = lineNo + 1 /\ Unread[1].t = "H")
            => LET p == Unread[1].p
                   after == stateByLog'[LogPath]
               IN  /\ \A key \in (DOMAIN tx'.plays) \ (DOMAIN tx.plays) :
                          \E obj \in ObjectsOf(p) :
                              /\ key = <<p.m, 1, obj.instanceId>>
                              /\ CardShown(obj)
                              /\ ResolvedZone(after, p.m, obj) \in {"stack", "battlefield"}
                   /\ \A key \in (DOMAIN tx'.oppCards) \ (DOMAIN tx.oppCards) :
                          \E obj \in ObjectsOf(p) :
                              /\ key = <<p.m, 1, obj.instanceId>>
                              /\ CardShown(obj)
                              /\ Get(after.selfSeatByMatch, p.m, 0) > 0
                              /\ obj.ownerSeatId # Get(after.selfSeatByMatch, p.m, 0)]_vars
    /\ [](\A d \in {db, tx} :
            /\ \A key \in (DOMAIN d.plays) \cup (DOMAIN d.oppCards) : key[3] \notin NeverRecorded
            /\ \A key \in DOMAIN d.oppCards : key[3] \notin SelfOwned)

\* a game state without seat and one with seat 2 are committed: plays for
\* 101, 106 and 108, opponent instances for 101, 105 and 108
C31_Witness ==
    /\ pc = "idle" /\ pass.ok /\ db.ingest.offset = Len(file)
    /\ file = LineOf(GreNoSeat) \o LineOf(GreSeat2)
    /\ {key[3] : key \in DOMAIN db.plays} = {101, 106, 108}
    /\ {key[3] : key \in DOMAIN db.oppCards} = {101, 105, 108}

(***************************************************************************)
(* Properties of the opponent.                                              *)
(***************************************************************************)
\* the listed players of an envelope: reservedPlayers, else players
Listed(p) == IF p.reserved # <<>> THEN p.reserved ELSE p.players

\* the positions of the listed players that are neither the user by id nor
\* the user by name
NotSelf(p, personaID, playerName) ==
    {i \in 1..Len(Listed(p)) :
        /\ Listed(p)[i].userId # personaID
        /\ ~(playerName # "" /\ Listed(p)[i].playerName = playerName)}

FirstOf(positions) == CHOOSE i \in positions : \A j \in positions : i <= j

\* C32: the opponent a room state records on the Match is the first listed
\* player that is neither the user by persona id nor by player name, and
\* only when the user is among the listed players; a stored opponent name
\* or id is never replaced by an absent one.
C32_OpponentIsFirstOther ==
    [][(pc = "reading" /\ lineNo' = lineNo + 1 /\ Unread[1].t = "H"
            /\ Unread[1].p.k = "room_state" /\ Has(tx.matches, "match-1"))
        => LET p == Unread[1].p
               personaID == stateByLog[LogPath].personaID
               others == NotSelf(p, personaID, stateByLog'[LogPath].playerName)
               selfSeen == personaID # "" /\ \E i \in 1..Len(Listed(p)) : Listed(p)[i].userId = personaID
               old == tx.matches["match-1"]
               new == tx'.matches["match-1"]
           IN  IF selfSeen /\ others # {}
               THEN /\ new.opponent_name = Coalesce(Listed(p)[FirstOf(others)].playerName, old.opponent_name)
                    /\ new.opponent_user_id = Coalesce(Listed(p)[FirstOf(others)].userId, old.opponent_user_id)
               ELSE /\ new.opponent_name = old.opponent_name
                    /\ new.opponent_user_id = old.opponent_user_id]_vars

(***************************************************************************)
(* Properties of the draft sessions.                                        *)
(***************************************************************************)
\* the sessions of machine-opponent drafts of the event that are not completed
OpenBotSessions(sessions, e) ==
    {i \in 1..Len(sessions) : /\ sessions[i].event_name = e
                              /\ sessions[i].is_bot_draft
                              /\ sessions[i].completed_at = SqlNull}

\* the picks of a session: the <<pack, pick>> pairs recorded for it
PicksOf(picks, i) == {<<k[2], k[3]>> : k \in {x \in DOMAIN picks : x[1] = i}}

LinkReason(p) ==
    IF p.method = "LogBusinessEvents" /\ p.etype = 3 THEN "pre_match"
    ELSE IF p.k = "room_state" THEN "room_state"
    ELSE ""

\* C34: for each match at most one link exists per snapshot_reason.
C34_OneLinkPerReason ==
    \A k1, k2 \in DOMAIN tx.matchDecks :
        (k1[1] = k2[1] /\ tx.matchDecks[k1] = tx.matchDecks[k2]) => k1 = k2

\* C34 (amended): no line deletes or rewrites a link; a link attempt adds at
\* most one link, carrying the reason of the attempt, and an attempt for a
\* match and deck that are linked already adds no row and changes none.
C34_FirstLinkPerDeckWins ==
    [][(pc = "reading" /\ lineNo' = lineNo + 1)
        => LET old == tx.matchDecks
               new == tx'.matchDecks
               added == DOMAIN new \ DOMAIN old
           IN  /\ \A k \in DOMAIN old : k \in DOMAIN new /\ new[k] = old[k]
               /\ Cardinality(added) <= 1
               /\ \A k \in added : /\ Unread[1].t = "H"
                                    /\ k[1] = Unread[1].p.m
                                    /\ new[k] = LinkReason(Unread[1].p)]_vars

\* match-1 is linked to deck A before the match by its start; its room state
\* was read after that and the link still carries the first reason, and a
\* second start after the submission of deck B has linked deck B
C34_Witness ==
    /\ lineNo = 5
    /\ file = LineOf(DeckA1) \o LineOf(Start1) \o LineOf(RoomPlaying)
                 \o LineOf(DeckB1) \o LineOf(Start1)
    /\ DOMAIN tx.matchDecks = {<<"match-1", "deck-A">>, <<"match-1", "deck-B">>}
    /\ tx.matchDecks[<<"match-1", "deck-A">>] = "pre_match"
    /\ tx.matchDecks[<<"match-1", "deck-B">>] = "pre_match"

(***************************************************************************)
(* Properties of the outgoing lines that hold nothing to extract.           *)
(***************************************************************************)
\* the methods handleOutgoing reads a request of
RecognisedMethods ==
    {"EventJoin", "EventClaimPrize", "EventSetDeckV2", "EventPlayerDraftMakePick",
     "BotDraftDraftPick", "DraftCompleteDraft", "LogBusinessEvents"}

\* the tables other than the RawEvent rows and the ingest state
EntityRows(d) == [Rows(d) EXCEPT !.raw = <<>>, !.ingest = EmptyDB.ingest]

\* C35: an outgoing line whose envelope is not valid JSON adds one RawEvent of
\* kind outgoing_unparsed with the method name and an empty payload, and one
\* whose method is not recognised adds one RawEvent of kind outgoing; neither
\* writes anything else and the pass goes on with the next line.
C35_UnparsedAndUnknownOnlyRaw ==
    [][(pc = "reading" /\ lineNo' = lineNo + 1 /\ Unread[1].t = "H"
            /\ Unread[1].p.head = "==>" /\ Len(Unread) >= 2 /\ Unread[2].t = "T"
            /\ (Unread[1].p.badJSON \/ Unread[1].p.method \notin RecognisedMethods))
        => LET p == Unread[1].p
               added == tx'.raw[Len(tx'.raw)]
           IN  /\ Len(tx'.raw) = Len(tx.raw) + 1
               /\ SubSeq(tx'.raw, 1, Len(tx.raw)) = tx.raw
               /\ added.kind = IF p.badJSON THEN "outgoing_unparsed" ELSE "outgoing"
               /\ added.method_name = p.method
               /\ added.line_no = lineNo'
               /\ p.badJSON => added.payload_json = ""
               /\ EntityRows(tx') = EntityRows(tx)
               /\ stateByLog' = stateByLog
               /\ pc' = "reading"]_vars

\* an EventJoin line that is not JSON and a line of a method the parser does
\* not read were recorded, after an EventJoin that created the run of E1
C35_Witness ==
    /\ Len(tx.raw) = 3
    /\ tx.raw[1].kind = "outgoing" /\ tx.raw[1].method_name = "EventJoin"
    /\ tx.raw[2].kind = "outgoing_unparsed" /\ tx.raw[2].method_name = "EventJoin"
    /\ tx.raw[3].kind = "outgoing" /\ tx.raw[3].method_name = "GraphGetGraphState"
    /\ tx.raw[3].payload_json = "fields"
    /\ DOMAIN tx.eventRuns = {"E1"}

(***************************************************************************)
(* Properties of the schema migration.                                      *)
(***************************************************************************)
\* the rows of the table in a catalog, none when there is no such table
RowsIn(c, t) == IF Has(c.tables, t) THEN c.tables[t].rows ELSE {}

\* the table had the game_number column when Init was called
HadGameNumber(t) == Has(pass.start.tables, t) /\ "game_number" \in pass.start.tables[t].cols

\* the rows the table is to hold after Init: those it held, with
\* game_number 1 where the column was missing
Migrated(t) ==
    IF HadGameNumber(t) THEN RowsIn(pass.start, t)
    ELSE {[id |-> r.id, match_id |-> r.match_id, instance_id |-> r.instance_id,
           card_id |-> r.card_id, game_number |-> 1] : r \in RowsIn(pass.start, t)}

\* C36: Init rebuilds a table that lacks game_number so that every row it
\* held survives with the same id and values and game_number 1; the
\* rebuild is atomic, so until it commits and after a failing step the
\* database holds the old table with its rows; Init on a database whose
\* tables have the column performs no rebuild and changes no row.
C36_RebuildKeepsRows ==
    pc # "idle" =>
      \A t \in {PlaysTable, OppTable} :
        /\ Has(db.tables, t)
        /\ DOMAIN db.tables = {PlaysTable, OppTable}
        /\ IF t \in pass.rebuilt
           THEN db.tables[t] = [cols |-> NewColumns, rows |-> Migrated(t)]
           ELSE Has(pass.start.tables, t) => db.tables[t] = pass.start.tables[t]
        /\ HadGameNumber(t) => t \notin pass.rebuilt /\ ~(pc = "rebuild" /\ pass.table = t)
        /\ (pc = "returned" /\ ~pass.err)
              => /\ "game_number" \in db.tables[t].cols
                 /\ db.tables[t].rows = Migrated(t)
                 /\ \A n \in DOMAIN db.indexes : db.indexes[n] \in {PlaysTable, OppTable}

\* both tables were rebuilt with their two rows by a first Init, and a
\* second Init has returned without a rebuild
C36_Witness ==
    /\ pc = "returned" /\ ~pass.err
    /\ pass.inits = 2 /\ pass.rebuilt = {} /\ pass.total = 2
    /\ \A t \in {PlaysTable, OppTable} :
          db.tables[t].rows = {Row(1, 101, 7001, 1), Row(2, 102, 7002, 1)}

(***************************************************************************)
(* Properties of the timestamp of a room state.                             *)
(***************************************************************************)
\* the text without the blanks around it
Unpadded(raw) ==
    LET inner == {i \in 1..Len(raw) : raw[i] # " "}
    IN  IF inner = {} THEN <<>>
        ELSE SubSeq(raw, CHOOSE i \in inner : \A j \in inner : i <= j,
                         CHOOSE i \in inner : \A j \in inner : j <= i)

\* the text is a decimal number that is not negative
IsDecimal(t) ==
    LET body == IF t # <<>> /\ t[1] = "+" THEN Tail(t) ELSE t
    IN  body # <<>> /\ \A i \in 1..Len(body) : body[i] \in DOMAIN DigitValue

\* the digits of the number from its first digit that is not 0
Significant(t) ==
    LET body == IF t # <<>> /\ t[1] = "+" THEN Tail(t) ELSE t
        lead == {i \in 1..Len(body) : body[i] # "0"}
    IN  IF lead = {} THEN <<>>
        ELSE SubSeq(body, CHOOSE i \in lead : \A j \in lead : i <= j, Len(body))

\* the last n decimal digits of a number
RECURSIVE DigitsOf(_, _)
DigitsOf(v, n) ==
    IF n = 0 THEN <<>>
    ELSE Append(DigitsOf(v \div 10, n - 1),
                CHOOSE c \in DOMAIN DigitValue : DigitValue[c] = v % 10)

\* the ten digits of the whole seconds of an instant
SecondDigits(out) == DigitsOf(out.sec_hi, 4) \o DigitsOf(out.sec_lo, 6)

\* C37: a timestamp text is read as milliseconds since the epoch when its
\* value is in [10^12, 10^13), as seconds when it is in [10^9, 10^10), and
\* as absent for every other value and every text that is no number;
\* 1772330782273 and 1772330782 give the same second, 12345 gives none.
C37_TimestampByMagnitude ==
    pc = "returned" =>
      LET t == Unpadded(pass.raw)
          sig == Significant(t)
          out == pass.out
      IN  /\ IF IsDecimal(t) /\ Len(sig) = 13
             THEN /\ out.set
                  /\ SecondDigits(out) = SubSeq(sig, 1, 10)
                  /\ DigitsOf(out.ms, 3) = SubSeq(sig, 11, 13)
             ELSE IF IsDecimal(t) /\ Len(sig) = 10
             THEN out.set /\ SecondDigits(out) = sig /\ out.ms = 0
             ELSE ~out.set
          /\ pass.raw \in {Millis273, Seconds782}
                => SecondDigits(out) = Seconds782 /\ out.sec_hi = 1772 /\ out.sec_lo = 330782
          /\ pass.raw = <<"1", "2", "3", "4", "5">> => out = NoTime

\* the millisecond text of the claim was read: second 1772330782, 273 ms
C37_Witness ==
    /\ pc = "returned"
    /\ pass.raw = Millis273
    /\ pass.out = [set |-> TRUE, sec_hi |-> 1772, sec_lo |-> 330782, ms |-> 273]

(***************************************************************************)
(* Properties of the event runs.                                            *)
(***************************************************************************)
\* C38: every committed Match with an event name has an EventRun of exactly
\* that name, and no line removes an EventRun.
C38_MatchEventHasRun ==
    \A m \in DOMAIN db.matches :
        db.matches[m].event_name # "" => Has(db.eventRuns, db.matches[m].event_name)

(***************************************************************************)
(* Properties of the match end.                                             *)
(***************************************************************************)
\* the end event a line applies to its match: the team of the user, the
\* winning team and what the event carries (0 and "": nothing).  A business
\* end names both teams; a room-state completion is an end event when the
\* user (on team 2 of the room) is known and the result list has a winner.
EndEventOf(p) ==
    IF p.k = "outgoing" /\ p.method = "LogBusinessEvents" /\ p.etype = 4 /\ p.m # ""
    THEN [applied |-> TRUE, team |-> p.team, wteam |-> p.wteam, at |-> p.ts,
          reason |-> p.reason # "", turns |-> p.turns, secs |-> p.secs]
    ELSE IF p.k = "room_state" /\ p.stateType = Completed /\ p.hasFinal
            /\ \E i \in 1..Len(p.results) : p.results[i].winningTeamId > 0
    THEN [applied |-> TRUE, team |-> 2,
          wteam |-> p.results[CHOOSE i \in 1..Len(p.results) :
                                 p.results[i].winningTeamId > 0].winningTeamId,
          at |-> p.ts * 1000, reason |-> TRUE, turns |-> 0, secs |-> 0]
    ELSE [applied |-> FALSE, team |-> 0, wteam |-> 0, at |-> 0, reason |-> FALSE,
          turns |-> 0, secs |-> 0]

\* C39: each end event applied to a match sets its result to the derivation
\* from that event, also to unknown over a stored win or loss, so that the
\* result is that of the last end event in file order; ended_at, win_reason,
\* turn_count and seconds_count take what the event carries and keep their
\* value where it carries nothing; other lines leave all five alone.
C39_LastEndDecidesResult ==
    [][(pc = "reading" /\ lineNo' = lineNo + 1 /\ Unread[1].t = "H"
            /\ Len(Unread) >= 2 /\ Unread[2].t = "T")
        => LET e == EndEventOf(Unread[1].p)
               old == Get(tx.matches, "match-1", NewMatch)
               new == Get(tx'.matches, "match-1", NewMatch)
           IN  IF e.applied
               THEN /\ new.result = (IF e.team > 0 /\ e.wteam > 0
                                     THEN (IF e.team = e.wteam THEN "win" ELSE "loss")
                                     ELSE "unknown")
                    /\ new.ended_at = (IF e.at # 0 THEN e.at ELSE old.ended_at)
                    /\ new.turn_count = (IF e.turns # 0 THEN e.turns ELSE old.turn_count)
                    /\ new.seconds_count = (IF e.secs # 0 THEN e.secs ELSE old.seconds_count)
                    /\ IF e.reason THEN new.win_reason # "" ELSE new.win_reason = old.win_reason
               ELSE /\ new.result = old.result
                    /\ new.ended_at = old.ended_at
                    /\ new.win_reason = old.win_reason
                    /\ new.turn_count = old.turn_count
                    /\ new.seconds_count = old.seconds_count]_vars

\* a win with time, counts and reason was followed by an end without teams
\* and by nothing else: the result is unknown and the rest is kept
C39_Witness ==
    /\ pc = "idle" /\ pass.ok /\ db.ingest.offset = Len(file)
    /\ file = PersonaShown \o LineOf(EndWinFull) \o LineOf(EndNoTeam)
    /\ db.matches["match-1"].result = "unknown"
    /\ db.matches["match-1"].ended_at = 50
    /\ db.matches["match-1"].turn_count = 7
    /\ db.matches["match-1"].seconds_count = 300
    /\ db.matches["match-1"].win_reason # ""

\* C40: with a pool of one connection, a pass takes a connection from the
\* pool only while it holds none (the ingest state is read before the
\* transaction begins, everything later goes through the transaction), so
\* it never waits for a connection it holds; while a pass has not returned,
\* some pass that has not returned can take its next step; a pass with an
\* open transaction keeps the connection until it commits (or, returning an
\* error, rolls back); and every pass that was called returns.
AtPool(p) ==
    pass[p].pc \in StoreCallPoints /\ usesPool(pass[p].pc)

WaitsForItself(p) ==
    /\ pass[p].pc \in StoreCallPoints
    /\ ~CanCall(p, pass[p].pc)
    /\ \/ p \in db.conns
       \/ ~usesPool(pass[p].pc)

Running(p) == pass[p].pc \notin {"idle"} \cup Returned

Stuck(p) == pass[p].pc \in StoreCallPoints /\ ~CanCall(p, pass[p].pc)

NoSelfWait ==
    /\ Cardinality(db.conns) <= MaxOpenConns
    /\ \A p \in ConnPaths :
          /\ ~WaitsForItself(p)
          /\ tx[p].open => p \in db.conns
          /\ pass[p].pc \in {"ReadString", "SaveIngestState", "Commit"} => tx[p].open

NoDeadlock ==
    (\E p \in ConnPaths : Running(p)) =>
        \E p \in ConnPaths : Running(p) /\ ~Stuck(p)

HandsAtCommitOnly ==
    \A p \in ConnPaths :
        (tx[p].open /\ p \notin db'.conns) =>
            /\ pass[p].pc \in {"Commit", "ReadString"}
            /\ pass'[p].pc \in {"BeginTx"} \cup Returned
            /\ pass[p].pc = "Commit" =>
                  /\ db'.ingest[p] = [Found |-> TRUE, LineNo |-> pass[p].lineNo]
                  /\ db'.events[p] = db.events[p] + tx[p].events
            /\ pass[p].pc = "ReadString" =>
                  /\ pass'[p].pc = "failed"
                  /\ db'.ingest = db.ingest /\ db'.events = db.events

====
